---------------------------- MODULE Spec2Model ----------------------------
(***************************************************************************)
(* Macro Terminal: the data-alignment and derived-metric layer.            *)
(*                                                                         *)
(* Each view of the dashboard is a read-only pipeline that is re-executed  *)
(* per render: raw agency payload -> period parser -> tidy table -> series *)
(* extractor -> index reconciler -> derived metrics.  The module models    *)
(* the pipeline stages as actions over the values they read and write.     *)
(* `unit' names the stage a behaviour exercises and `pc' its position      *)
(* ("start": inputs loaded, "done": the stage has run).                    *)
(*                                                                         *)
(* Floating point values are modelled exactly: a float is a pair <<n, d>>, *)
(* a normalised rational n/d (d > 0), or one of the IEEE specials          *)
(* <<0,0>> (NaN), <<1,0>> (+inf), <<-1,0>> (-inf).                          *)
(***************************************************************************)
EXTENDS Integers, Sequences, FiniteSets, TLC

VARIABLES
    unit,        \* which pipeline stage this run exercises
    pc,          \* "start" while the inputs are loaded, then the name of the operation that ran
    series,      \* a series handed to a derived-metric helper: a sequence of [date, value]
    pct,         \* the percent-change series computed from `series'
    result,      \* what a derived-metric helper returned for `series', with its arguments
    weekly,      \* energy: a weekly inventory series
    years,       \* energy: the look-back of load_seasonal_bands
    band,        \* energy: the seasonal band table
    crude_s,     \* energy: E["crude_stocks"]
    streak,      \* energy: the streak counter of the balance section
    streak_type, \* energy: "draw" | "build" | ""
    cut,         \* the range selection: 0 (All) or -k (last k periods)
    common,      \* corporate: the common index
    trimmed,     \* the result of a trailing-window operator
    total,       \* corporate: total domestic profits
    undist_s,    \* corporate: undistributed profits
    ret_rate,    \* corporate: the retention-rate series
    lhs,         \* reconciler: first series
    rhs,         \* reconciler: second series
    frame,       \* reconciler: the aligned frame
    payload,     \* ingestion: the raw observations of an agency response
    tidy,        \* ingestion: the outcome of the fetch
    period,      \* period parser: the label (and year) handed to a parser
    stamp,       \* period parser: what the parser returned
    df,          \* extractor: a tidy table
    code,        \* extractor: the requested series identifier
    extracted,   \* extractor: the extracted series
    fetches,     \* view: the outcome of each upstream request of a view
    messages,    \* view: the messages the view has displayed, in order
    rendered,    \* view: the sections (KPIs, charts, tables) the view has drawn
    raised,      \* view: the exception that left render, "none" when it returned
    session_state, \* app: st.session_state, a dictionary
    click,       \* app: the navigation button whose click started the script run, or "none"
    clicks,      \* app: the navigation buttons clicked so far, in order
    script_runs  \* app: the script runs that have ended, each with the renders it invoked

vars == <<unit, pc, series, pct, result, weekly, years, band, crude_s, streak, streak_type,
          cut, common, trimmed, total, undist_s, ret_rate, lhs, rhs, frame,
          payload, tidy, period, stamp, df, code, extracted,
          fetches, messages, rendered, raised,
          session_state, click, clicks, script_runs>>

\* the variables of the stages a run does not exercise hold this value
None == <<>>

ParkPct == series = None /\ pct = None /\ result = None
ParkBand == weekly = None /\ years = None /\ band = None
ParkStreak == crude_s = None /\ streak = None /\ streak_type = None
ParkTrim == cut = None /\ common = None /\ trimmed = None
ParkCorporate == total = None /\ undist_s = None /\ ret_rate = None
ParkReconcile == lhs = None /\ rhs = None /\ frame = None
ParkIngest == payload = None /\ tidy = None /\ period = None /\ stamp = None
ParkExtract == df = None /\ code = None /\ extracted = None
ParkView == fetches = None /\ messages = None /\ rendered = None /\ raised = None
ParkApp == session_state = None /\ click = None /\ clicks = None /\ script_runs = None

pctVars == <<series, pct, result>>
bandVars == <<weekly, years, band>>
streakVars == <<crude_s, streak, streak_type>>
trimVars == <<cut, common, trimmed>>
corporateVars == <<total, undist_s, ret_rate>>
reconcileVars == <<lhs, rhs, frame>>
ingestVars == <<payload, tidy, period, stamp>>
extractVars == <<df, code, extracted>>
viewVars == <<fetches, messages, rendered, raised>>
appVars == <<session_state, click, clicks, script_runs>>

---------------------------------------------------------------------------
(* Floats *)

NaN == <<0, 0>>
PosInf == <<1, 0>>
NegInf == <<-1, 0>>

F(k) == <<k, 1>>

Abs(x) == IF x < 0 THEN -x ELSE x
Sgn(x) == IF x < 0 THEN -1 ELSE IF x > 0 THEN 1 ELSE 0
Max(a, b) == IF a >= b THEN a ELSE b
Min(a, b) == IF a <= b THEN a ELSE b

RECURSIVE GCD(_, _)
GCD(a, b) == IF b = 0 THEN a ELSE GCD(b, a % b)

\* the rational n/d, d # 0, in lowest terms with a positive denominator
Norm(n, d) ==
    LET g == GCD(Abs(n), Abs(d))
        sg == IF d < 0 THEN -1 ELSE 1
    IN  <<(sg * n) \div g, (sg * d) \div g>>

IsNaN(x) == x = NaN
IsInf(x) == x[2] = 0 /\ x[1] # 0
IsFinite(x) == x[2] # 0

FNeg(x) == <<-x[1], x[2]>>

FAdd(a, b) ==
    IF IsNaN(a) \/ IsNaN(b) THEN NaN
    ELSE IF IsInf(a) /\ IsInf(b) THEN (IF a = b THEN a ELSE NaN)
    ELSE IF IsInf(a) THEN a
    ELSE IF IsInf(b) THEN b
    ELSE Norm(a[1] * b[2] + b[1] * a[2], a[2] * b[2])

FSub(a, b) == FAdd(a, FNeg(b))

FMul(a, b) ==
    IF IsNaN(a) \/ IsNaN(b) THEN NaN
    ELSE IF IsInf(a) \/ IsInf(b)
         THEN (IF a[1] = 0 \/ b[1] = 0 THEN NaN ELSE <<Sgn(a[1]) * Sgn(b[1]), 0>>)
    ELSE Norm(a[1] * b[1], a[2] * b[2])

FDiv(a, b) ==
    IF IsNaN(a) \/ IsNaN(b) THEN NaN
    ELSE IF IsInf(a) THEN (IF IsInf(b) THEN NaN
                           ELSE <<a[1] * (IF b[1] < 0 THEN -1 ELSE 1), 0>>)
    ELSE IF IsInf(b) THEN F(0)
    ELSE IF b[1] = 0 THEN (IF a[1] = 0 THEN NaN ELSE <<Sgn(a[1]), 0>>)
    ELSE Norm(a[1] * b[2], a[2] * b[1])

FLess(a, b) ==
    IF IsNaN(a) \/ IsNaN(b) THEN FALSE
    ELSE IF a = b THEN FALSE
    ELSE IF a = NegInf \/ b = PosInf THEN TRUE
    ELSE IF a = PosInf \/ b = NegInf THEN FALSE
    ELSE a[1] * b[2] < b[1] * a[2]

---------------------------------------------------------------------------
(* Series: a pandas Series is a sequence of [date, value] in stored order *)

Obs(d, v) == [date |-> d, value |-> v]

Index(s) == [i \in 1..Len(s) |-> s[i].date]
Values(s) == [i \in 1..Len(s) |-> s[i].value]
Dates(s) == {s[i].date : i \in 1..Len(s)}

SeqsUpTo(S, n) == UNION {[1..k -> S] : k \in 0..n}

\* a shift that clamps at the first observation instead of leaving the head undefined
Shift_clamped(s, periods) ==
    [i \in 1..Len(s) |->
        Obs(s[i].date, IF i <= periods THEN s[1].value ELSE s[i - periods].value)]

\* Series.shift(periods): values move down by `periods' positions, the index
\* stays, the vacated head is NaN
Shift(s, periods) ==
    [i \in 1..Len(s) |->
        Obs(s[i].date, IF i <= periods THEN NaN ELSE s[i - periods].value)]

\* Series.pct_change(periods) on a series without NaN: s / s.shift(periods) - 1
pct_change(s, periods) ==
    LET sh == Shift(s, periods)
    IN  [i \in 1..Len(s) |->
            Obs(s[i].date, FSub(FDiv(s[i].value, sh[i].value), F(1)))]

\* Series * k
Scale(s, k) == [i \in 1..Len(s) |-> Obs(s[i].date, FMul(s[i].value, F(k)))]

---------------------------------------------------------------------------
(* Percent change over N periods: inflation.yoy, labor.yoy_pct and the      *)
(* corporate view's yoy_full                                               *)

YoyPeriods == 12
QuarterPeriods == 4

\* inflation.py: def yoy(s): return s.pct_change(12) * 100
yoy(s) == Scale(pct_change(s, YoyPeriods), 100)

\* labor.py: def yoy_pct(series): return series.pct_change(12) * 100
yoy_pct(s) == Scale(pct_change(s, YoyPeriods), 100)

\* corporate.py: yoy_full = total.pct_change(4) * 100
yoy_full(s) == Scale(pct_change(s, QuarterPeriods), 100)

ShortLen == 6
LongLen == 13
ShortValues == {0, 1, 2}
LongValues == {1, 2}

\* a series of consecutive periods 1..n carrying the given integer levels
Consecutive(vals) == [i \in 1..Len(vals) |-> Obs(i, F(vals[i]))]

PctInputs ==
    {Consecutive(v) : v \in SeqsUpTo(ShortValues, ShortLen)}
    \cup {Consecutive(v) : v \in UNION {[1..k -> LongValues] : k \in YoyPeriods..LongLen}}

pctIdle == <<appVars, bandVars, streakVars, trimVars, corporateVars, reconcileVars,
             ingestVars, extractVars, viewVars>>

InitPct ==
    /\ unit = "pct" /\ pc = "start"
    /\ series \in PctInputs
    /\ pct = None /\ result = None
    /\ ParkBand /\ ParkStreak /\ ParkTrim /\ ParkCorporate /\ ParkReconcile
    /\ ParkIngest /\ ParkExtract /\ ParkView
    /\ ParkApp

InflationYoy ==
    /\ unit = "pct" /\ pc = "start"
    /\ pct' = yoy(series)
    /\ pc' = "yoy"
    /\ UNCHANGED <<unit, series, result, pctIdle>>

LaborYoyPct ==
    /\ unit = "pct" /\ pc = "start"
    /\ pct' = yoy_pct(series)
    /\ pc' = "yoy_pct"
    /\ UNCHANGED <<unit, series, result, pctIdle>>

CorporateYoyFull ==
    /\ unit = "pct" /\ pc = "start"
    /\ pct' = yoy_full(series)
    /\ pc' = "yoy_full"
    /\ UNCHANGED <<unit, series, result, pctIdle>>

NextPct == InflationYoy \/ LaborYoyPct \/ CorporateYoyFull

SpecPct == InitPct /\ [][NextPct]_vars

\* the shift each percent-change operation is defined with
PeriodsOf(op) == IF op = "yoy_full" THEN QuarterPeriods ELSE YoyPeriods

\* x is the float (a / b - 1) * 100 of two integer levels a, b
IsPercentChange(x, a, b) ==
    IF b # 0 THEN IsFinite(x) /\ x[1] * b = x[2] * 100 * (a - b)
    ELSE IF a = 0 THEN IsNaN(x)
    ELSE x = <<Sgn(a), 0>>

\* C1: the percent change over N periods is (S[t] / S[t-N] - 1) * 100 at every
\* position t that has a position t-N before it, and undefined (NaN) at the first
\* N positions; a series of N or fewer observations has no defined value
C1_PercentChange ==
    pc \in {"yoy", "yoy_pct", "yoy_full"} =>
        LET N == PeriodsOf(pc) IN
        /\ Len(pct) = Len(series)
        /\ \A t \in 1..Len(series) :
              /\ pct[t].date = series[t].date
              /\ t > N => IsPercentChange(pct[t].value, series[t].value[1],
                                          series[t - N].value[1])
              /\ t <= N => IsNaN(pct[t].value)
        /\ Len(series) <= N => \A t \in 1..Len(pct) : IsNaN(pct[t].value)

\* a year-over-year value is defined: 13 monthly observations, the last one compared
\* with the first
C1_Witness ==
    /\ pc = "yoy" /\ Len(series) = YoyPeriods + 1
    /\ series[1].value = F(1) /\ series[YoyPeriods + 1].value = F(2)
    /\ pct[YoyPeriods + 1].value = F(100)

---------------------------------------------------------------------------
(* Seasonal banding: energy.load_seasonal_bands                            *)
(* A weekly date is <<year, day of year>>.                                 *)

IsLeap(y) == (y % 4 = 0 /\ y % 100 # 0) \/ y % 400 = 0
DaysInYear(y) == IF IsLeap(y) THEN 366 ELSE 365

\* date.toordinal(): days since 0001-01-01 (which is day 1)
DaysBeforeYear(y) ==
    LET p == y - 1 IN p * 365 + p \div 4 - p \div 100 + p \div 400
Ordinal(d) == DaysBeforeYear(d[1]) + d[2]

\* df["date"].dt.year
YearOf(d) == d[1]

\* the ordinal of the Monday that starts ISO week 1 of year y
IsoWeek1Monday(y) ==
    LET firstday == DaysBeforeYear(y) + 1
        firstweekday == (firstday + 6) % 7
        monday == firstday - firstweekday
    IN  IF firstweekday > 3 THEN monday + 7 ELSE monday

\* df["date"].dt.isocalendar().week
IsoWeek(d) ==
    LET y == d[1]
        today == Ordinal(d)
        week == (today - IsoWeek1Monday(y)) \div 7
    IN  IF week < 0 THEN (today - IsoWeek1Monday(y - 1)) \div 7 + 1
        ELSE IF week >= 52 /\ today >= IsoWeek1Monday(y + 1) THEN 1
        ELSE week + 1

DateLess(a, b) == a[1] < b[1] \/ (a[1] = b[1] /\ a[2] < b[2])

RECURSIVE SortedInts(_)
\* the integers of the finite set S in ascending order
SortedInts(S) ==
    IF S = {} THEN <<>>
    ELSE LET m == CHOOSE x \in S : \A y \in S : x <= y
         IN  <<m>> \o SortedInts(S \ {m})

\* the dates of the finite set D in ascending order
SortedDates(D) ==
    LET ords == SortedInts({Ordinal(d) : d \in D})
    IN  [k \in 1..Len(ords) |-> CHOOSE d \in D : Ordinal(d) = ords[k]]

RECURSIVE FSum(_)
FSum(vs) == IF vs = <<>> THEN F(0) ELSE FAdd(vs[1], FSum(Tail(vs)))

RECURSIVE FMin(_)
FMin(vs) ==
    IF Len(vs) = 1 THEN vs[1]
    ELSE LET r == FMin(Tail(vs)) IN IF FLess(r, vs[1]) THEN r ELSE vs[1]

RECURSIVE FMax(_)
FMax(vs) ==
    IF Len(vs) = 1 THEN vs[1]
    ELSE LET r == FMax(Tail(vs)) IN IF FLess(vs[1], r) THEN r ELSE vs[1]

FMean(vs) == FDiv(FSum(vs), F(Len(vs)))

\* cutoff that keeps the latest year in the band
cutoff_year_inclusive(frame_rows) ==
    CHOOSE y \in {r.year : r \in frame_rows} : \A r \in frame_rows : r.year <= y

\* energy.py: cutoff_year = df["year"].max() - 1   # exclude current year from band
cutoff_year(frame_rows) ==
    (CHOOSE y \in {r.year : r \in frame_rows} : \A r \in frame_rows : r.year <= y) - 1

\* energy.py load_seasonal_bands: the band table, one row per week in ascending
\* week order; an empty frame for an empty series
load_seasonal_bands(s, n_years) ==
    IF Len(s) = 0 THEN <<>>
    ELSE
    LET rows == {[date |-> s[i].date, value |-> s[i].value,
                  year |-> YearOf(s[i].date), week |-> IsoWeek(s[i].date)] :
                    i \in 1..Len(s)}
        cutoff == cutoff_year(rows)
        hist == {r \in rows : r.year <= cutoff}
        recent_hist == {r \in hist : r.year >= cutoff - n_years + 1}
        weeks == SortedInts({r.week : r \in recent_hist})
        group(w) == LET ds == SortedDates({r.date : r \in {q \in recent_hist : q.week = w}})
                    IN  [k \in 1..Len(ds) |->
                            (CHOOSE r \in recent_hist : r.date = ds[k]).value]
    IN  [k \in 1..Len(weeks) |->
            [week |-> weeks[k],
             min5y |-> FMin(group(weeks[k])),
             max5y |-> FMax(group(weeks[k])),
             avg5y |-> FMean(group(weeks[k]))]]

FirstYear == 2019
NumYears == 4
MaxYears == 2

BandYears == FirstYear..(FirstYear + NumYears - 1)
BandDates == {<<y, d>> : y \in BandYears, d \in {1, 8}}
BandDateSeq == SortedDates(BandDates)

RECURSIVE Pow2(_)
Pow2(k) == IF k = 0 THEN 1 ELSE 2 * Pow2(k - 1)

\* the position of date d in the calendar of the model
DatePos(d) == CHOOSE k \in 1..Len(BandDateSeq) : BandDateSeq[k] = d

\* a weekly series on the dates D, ascending by date; every observation carries a
\* distinct power of two, rising or falling in time
WeeklySeries(D, rising) ==
    LET ds == SortedDates(D)
    IN  [i \in 1..Len(ds) |->
            Obs(ds[i], F(Pow2(IF rising THEN DatePos(ds[i])
                              ELSE Len(BandDateSeq) + 1 - DatePos(ds[i]))))]

bandIdle == <<appVars, pctVars, streakVars, trimVars, corporateVars, reconcileVars,
              ingestVars, extractVars, viewVars>>

InitBand ==
    /\ unit = "band" /\ pc = "start"
    /\ weekly \in {WeeklySeries(D, r) : D \in SUBSET BandDates, r \in BOOLEAN}
    /\ years \in 1..MaxYears
    /\ band = None
    /\ ParkPct /\ ParkStreak /\ ParkTrim /\ ParkCorporate /\ ParkReconcile
    /\ ParkIngest /\ ParkExtract /\ ParkView
    /\ ParkApp

LoadSeasonalBands ==
    /\ unit = "band" /\ pc = "start"
    /\ band' = load_seasonal_bands(weekly, years)
    /\ pc' = "load_seasonal_bands"
    /\ UNCHANGED <<unit, weekly, years, bandIdle>>

NextBand == LoadSeasonalBands

SpecBand == InitBand /\ [][NextBand]_vars

RECURSIVE SumOverSet(_, _)
\* the sum of the integer levels of s at the positions I
SumOverSet(s, I) ==
    IF I = {} THEN 0
    ELSE LET i == CHOOSE x \in I : TRUE IN s[i].value[1] + SumOverSet(s, I \ {i})
SumOver(s, I) == SumOverSet(s, I)

\* the latest calendar year present in a non-empty series
LatestYear(s) == CHOOSE y \in {s[i].date[1] : i \in 1..Len(s)} :
                    \A i \in 1..Len(s) : s[i].date[1] <= y

\* the observations of s in years lo..hi whose ISO week is w
Contributors(s, lo, hi, w) ==
    {i \in 1..Len(s) : s[i].date[1] \in lo..hi /\ IsoWeek(s[i].date) = w}

\* C2: with Y the latest year of the series, every band row's min, max and mean are
\* those of exactly the observations of years Y-N..Y-1 in the row's week, and a week
\* has a row iff such an observation exists: year Y and years before Y-N never
\* contribute
C2_BandWindow ==
    (pc = "load_seasonal_bands" /\ Len(weekly) > 0) =>
        LET Y == LatestYear(weekly)
            C(w) == Contributors(weekly, Y - years, Y - 1, w)
        IN  /\ {band[k].week : k \in 1..Len(band)} = {w \in 1..53 : C(w) # {}}
            /\ \A k \in 1..Len(band) :
                 LET cs == C(band[k].week) IN
                 /\ \E i \in cs : band[k].min5y = weekly[i].value
                 /\ \A i \in cs : ~FLess(weekly[i].value, band[k].min5y)
                 /\ \E i \in cs : band[k].max5y = weekly[i].value
                 /\ \A i \in cs : ~FLess(band[k].max5y, weekly[i].value)
                 /\ IsFinite(band[k].avg5y)
                 /\ band[k].avg5y[1] * Cardinality(cs)
                      = band[k].avg5y[2] * SumOver(weekly, cs)

\* a series covering the latest year, the look-back years and an older year: the band
\* is not empty and both the latest and the older year hold an observation of a week
\* that has a band row
C2_Witness ==
    /\ pc = "load_seasonal_bands" /\ Len(weekly) > 0 /\ Len(band) > 0
    /\ LET Y == LatestYear(weekly) IN
       \E k \in 1..Len(band) :
          /\ \E i \in 1..Len(weekly) : weekly[i].date[1] = Y
                                       /\ IsoWeek(weekly[i].date) = band[k].week
          /\ \E i \in 1..Len(weekly) : weekly[i].date[1] < Y - years
                                       /\ IsoWeek(weekly[i].date) = band[k].week

---------------------------------------------------------------------------
(* Streak of weekly crude builds / draws: energy.render, section 5         *)

\* Series.diff(): the change from the previous observation, NaN at the first
diff(s) ==
    [i \in 1..Len(s) |->
        Obs(s[i].date, IF i = 1 THEN NaN ELSE FSub(s[i].value, s[i - 1].value))]

IsObserved(o) == ~IsNaN(o.value)

\* Series.dropna()
dropna(s) == SelectSeq(s, IsObserved)

\* a slice that starts one row late
iloc_tail_late(s, c) == SubSeq(s, Max(Len(s) + c, 0) + 2, Len(s))

\* s.iloc[c:] for c < 0: the last -c rows, all of them when there are fewer
iloc_tail(s, c) == SubSeq(s, Max(Len(s) + c, 0) + 1, Len(s))

\* energy.py:828  chg_weekly.dropna().iloc[-8:]
StreakWindow == 8

IsNegative(v) == FLess(v, F(0))

RECURSIVE StreakScan(_, _, _, _)
\* energy.py:829-838: the loop over reversed(chg_recent.values), at position i with
\* the counters so far
StreakScan(vals, i, n, type) ==
    IF i = 0 THEN [streak |-> n, streak_type |-> type]
    ELSE IF n = 0
         THEN StreakScan(vals, i - 1, 1, IF IsNegative(vals[i]) THEN "draw" ELSE "build")
    ELSE IF (IsNegative(vals[i]) /\ type = "draw") \/ (~IsNegative(vals[i]) /\ type = "build")
         THEN StreakScan(vals, i - 1, n + 1, type)
    ELSE [streak |-> n, streak_type |-> type]

\* energy.py:827-838
crude_streak(s) ==
    LET chg_weekly == diff(s)
        chg_recent == iloc_tail(dropna(chg_weekly), -StreakWindow)
    IN  StreakScan(Values(chg_recent), Len(chg_recent), 0, "")

MaxWeeks == 9
WeeklyChanges == {-1, 0, 1}

RECURSIVE Levels(_, _)
\* the levels that start at `base' and move by the changes d
Levels(base, d) ==
    IF d = <<>> THEN <<base>> ELSE <<base>> \o Levels(base + d[1], Tail(d))

\* crude stocks of consecutive weeks; the empty series is a failed EIA fetch
CrudeInputs ==
    {<<>>} \cup {Consecutive(Levels(MaxWeeks, d)) : d \in SeqsUpTo(WeeklyChanges, MaxWeeks)}

streakIdle == <<appVars, pctVars, bandVars, trimVars, corporateVars, reconcileVars,
                ingestVars, extractVars, viewVars>>

InitStreak ==
    /\ unit = "streak" /\ pc = "start"
    /\ crude_s \in CrudeInputs
    /\ streak = None /\ streak_type = None
    /\ ParkPct /\ ParkBand /\ ParkTrim /\ ParkCorporate /\ ParkReconcile
    /\ ParkIngest /\ ParkExtract /\ ParkView
    /\ ParkApp

\* energy.py:796-838: the section is skipped for an empty series
EnergyStreak ==
    /\ unit = "streak" /\ pc = "start"
    /\ IF Len(crude_s) > 0
       THEN /\ streak' = crude_streak(crude_s).streak
            /\ streak_type' = crude_streak(crude_s).streak_type
       ELSE UNCHANGED <<streak, streak_type>>
    /\ pc' = "streak"
    /\ UNCHANGED <<unit, crude_s, streakIdle>>

NextStreak == EnergyStreak

SpecStreak == InitStreak /\ [][NextStreak]_vars

\* the week-over-week changes of a series of integer levels
ChangesOf(s) == [i \in 1..(Len(s) - 1) |-> s[i + 1].value[1] - s[i].value[1]]

\* draws are negative changes; the view counts every other change as a build
SameKind(a, b) == (a < 0) = (b < 0)

\* the length of the maximal run of trailing changes of the kind of the last one
TrailingRun(ch) ==
    CHOOSE k \in 1..Len(ch) :
        /\ \A j \in (Len(ch) - k + 1)..Len(ch) : SameKind(ch[j], ch[Len(ch)])
        /\ k < Len(ch) => ~SameKind(ch[Len(ch) - k], ch[Len(ch)])

\* C3: for every non-empty sequence of weekly changes the reported streak is the
\* length of the maximal trailing run of changes of the same sign as the latest one,
\* stopping only at a sign flip or at the start of the data
C3_StreakIsTrailingRun ==
    (pc = "streak" /\ Len(crude_s) >= 2) =>
        streak = TrailingRun(ChangesOf(crude_s))

\* the spec's example is reported as it states: [+2, +1, -3, -1, -1] shaped data
\* (a run of three draws after builds) gives a streak of 3
C3_ShortRunsAgree ==
    (pc = "streak" /\ Len(crude_s) >= 2
       /\ TrailingRun(ChangesOf(crude_s)) <= StreakWindow) =>
        streak = TrailingRun(ChangesOf(crude_s))

---------------------------------------------------------------------------
(* Trailing-window operators: rates._trim, the trim closures of labor and  *)
(* inflation, corporate's _tr                                              *)

\* rates.py:218-220
rates_trim(s, c) ==
    IF c = 0 THEN s
    ELSE IF Len(s) > Abs(c) THEN iloc_tail(s, c) ELSE s

\* labor.py:249  def trim(s): return s.iloc[cut:] if cut != 0 else s
labor_trim(s, c) == IF c # 0 THEN iloc_tail(s, c) ELSE s

\* inflation.py:214
inflation_trim(s, c) == IF c # 0 THEN iloc_tail(s, c) ELSE s

HasDate(s, d) == \E i \in 1..Len(s) : s[i].date = d
ValueAt(s, d) == s[CHOOSE i \in 1..Len(s) : s[i].date = d].value

\* Series.reindex(idx) of a series with unique dates: the rows of idx, NaN where
\* the series has no observation
reindex(s, idx) ==
    [k \in 1..Len(idx) |-> Obs(idx[k], IF HasDate(s, idx[k]) THEN ValueAt(s, idx[k]) ELSE NaN)]

\* Series.fillna(v)
fillna(s, v) == [i \in 1..Len(s) |-> Obs(s[i].date, IF IsNaN(s[i].value) THEN v ELSE s[i].value)]

\* corporate.py:246-248
tr(s, idx, c) ==
    LET r == fillna(reindex(s, idx), F(0))
    IN  IF c # 0 THEN iloc_tail(r, c) ELSE r

MaxT == 5
MaxCut == 3
\* corporate.py:242  if len(common) < 4: ... return
MinPeriods == 4

Cuts == {0} \cup {-k : k \in 1..MaxCut}

\* the series on the dates D (ascending) whose value at d is d + 10, or NaN on Gaps
SeriesOn(D, Gaps) ==
    LET ds == SortedInts(D)
    IN  [i \in 1..Len(ds) |-> Obs(ds[i], IF ds[i] \in Gaps THEN NaN ELSE F(ds[i] + 10))]

TrimInputs == {SeriesOn(D, G) : D \in SUBSET (1..MaxT), G \in SUBSET (1..MaxT)}

\* the indexes render can reach _tr with: at least MinPeriods common quarters
CommonInputs == {SortedInts(D) : D \in {E \in SUBSET (1..MaxT) : Cardinality(E) >= MinPeriods}}

trimIdle == <<appVars, pct, result, bandVars, streakVars, corporateVars, reconcileVars,
              ingestVars, extractVars, viewVars>>

InitTrim ==
    /\ pc = "start"
    /\ series \in TrimInputs
    /\ cut \in Cuts
    /\ \/ unit = "trim" /\ common = None
       \/ unit = "tr" /\ common \in CommonInputs
    /\ trimmed = None
    /\ pct = None /\ result = None
    /\ ParkBand /\ ParkStreak /\ ParkCorporate /\ ParkReconcile
    /\ ParkIngest /\ ParkExtract /\ ParkView
    /\ ParkApp

RatesTrim ==
    /\ unit = "trim" /\ pc = "start"
    /\ trimmed' = rates_trim(series, cut)
    /\ pc' = "rates_trim"
    /\ UNCHANGED <<unit, series, cut, common, trimIdle>>

LaborTrim ==
    /\ unit = "trim" /\ pc = "start"
    /\ trimmed' = labor_trim(series, cut)
    /\ pc' = "labor_trim"
    /\ UNCHANGED <<unit, series, cut, common, trimIdle>>

InflationTrim ==
    /\ unit = "trim" /\ pc = "start"
    /\ trimmed' = inflation_trim(series, cut)
    /\ pc' = "inflation_trim"
    /\ UNCHANGED <<unit, series, cut, common, trimIdle>>

CorporateTr ==
    /\ unit = "tr" /\ pc = "start"
    /\ trimmed' = tr(series, common, cut)
    /\ pc' = "tr"
    /\ UNCHANGED <<unit, series, cut, common, trimIdle>>

NextTrim == RatesTrim \/ LaborTrim \/ InflationTrim \/ CorporateTr

SpecTrim == InitTrim /\ [][NextTrim]_vars

\* out is the last min(k, n) rows of the n rows of s, in order and unchanged
IsLastRows(out, s, k) ==
    LET n == Len(s)
        m == Min(k, n)
    IN  /\ Len(out) = m
        /\ \A j \in 1..m : out[j] = s[n - m + j]

\* the window a cut selects from n rows: all of them for cut 0, the last -cut otherwise
WindowOf(c, n) == IF c = 0 THEN n ELSE -c

\* C5 (as claimed): every trailing-window operator, corporate's _tr included, returns
\* the last min(k, n) observations of its argument unchanged, and the argument itself
\* for cut = 0
C5_TrimReturnsLastRows ==
    pc \in {"rates_trim", "labor_trim", "inflation_trim", "tr"} =>
        IsLastRows(trimmed, series, WindowOf(cut, Len(series)))

\* C5 (amended): rates._trim and the trim closures of labor and inflation return the
\* last min(k, n) observations unchanged (the series itself for cut = 0); corporate's
\* _tr returns the last min(k, m) rows of the series re-indexed to the m common
\* quarters, a missing or NaN value replaced by 0 (all m rows for cut = 0)
C5_Trim ==
    /\ pc \in {"rates_trim", "labor_trim", "inflation_trim"} =>
          IsLastRows(trimmed, series, WindowOf(cut, Len(series)))
    /\ pc = "tr" =>
          LET m == Len(common)
              w == Min(WindowOf(cut, m), m)
          IN  /\ Len(trimmed) = w
              /\ \A j \in 1..w :
                   LET d == common[m - w + j] IN
                   /\ trimmed[j].date = d
                   /\ \/ \E i \in 1..Len(series) :
                            /\ series[i].date = d /\ ~IsNaN(series[i].value)
                            /\ trimmed[j].value = series[i].value
                      \/ /\ \A i \in 1..Len(series) :
                               series[i].date = d => IsNaN(series[i].value)
                         /\ trimmed[j].value = F(0)

\* _tr has cut a window that holds both an observation of the series and a common
\* quarter the series lacks, which it filled with 0
C5_Witness ==
    /\ pc = "tr" /\ cut < 0 /\ Len(common) > -cut
    /\ \E j \in 1..Len(trimmed) : ~HasDate(series, trimmed[j].date) /\ trimmed[j].value = F(0)
    /\ \E j \in 1..Len(trimmed) : HasDate(series, trimmed[j].date) /\ trimmed[j].value # F(0)

---------------------------------------------------------------------------
(* Corporate view: the retention rate (undistributed / total profits)      *)

InSeq(x, q) == \E i \in 1..Len(q) : q[i] = x

\* a left join: every label of a is kept
index_left(a, b) == a

RECURSIVE index_intersection(_, _)
\* Index.intersection of two ascending indexes without duplicates: the labels of a,
\* in order, that b holds too
index_intersection(a, b) ==
    IF a = <<>> THEN <<>>
    ELSE IF InSeq(a[1], b) THEN <<a[1]>> \o index_intersection(Tail(a), b)
    ELSE index_intersection(Tail(a), b)

RECURSIVE ffill(_)
\* Series.ffill(): a NaN takes the last value before it, a leading NaN stays
ffill(s) ==
    IF Len(s) <= 1 THEN s
    ELSE LET init == ffill(SubSeq(s, 1, Len(s) - 1))
             last == s[Len(s)]
         IN  Append(init, IF IsNaN(last.value) THEN Obs(last.date, init[Len(init)].value)
                          ELSE last)

\* Series.replace(a, b)
replace(s, a, b) == [i \in 1..Len(s) |-> Obs(s[i].date, IF s[i].value = a THEN b ELSE s[i].value)]

\* a / b of two series on the same index
series_div(a, b) == [i \in 1..Len(a) |-> Obs(a[i].date, FDiv(a[i].value, b[i].value))]

\* the final fill of line 462 left out: a zero denominator stays NaN
ratio_unfilled(s, v) == s

\* corporate.py:462  (u_t / denom_u * 100).fillna(0)
ratio_filled(s, v) == fillna(s, v)

\* corporate.py:454  if len(u_idx) > 4
MinOverlap == 4

\* corporate.py:453-462: the retention-rate series, or None when the overlap is too
\* short for the chart
retention_rate(idx, undist, tot, c) ==
    LET u_idx == index_intersection(idx, Index(undist))
    IN  IF Len(u_idx) > MinOverlap
        THEN LET u_s == fillna(ffill(reindex(undist, u_idx)), F(0))
                 u_t == IF c # 0 THEN iloc_tail(u_s, c) ELSE u_s
                 tot_all == fillna(reindex(tot, u_idx), F(0))
                 tot_u == IF c # 0 THEN iloc_tail(tot_all, c) ELSE tot_all
                 denom_u == replace(tot_u, F(0), NaN)
             IN  ratio_filled(Scale(series_div(u_t, denom_u), 100), F(0))
        ELSE None

MaxQ == 6
ProfitLevels == {0, 2}

\* total profits on the quarters 1..MaxQ
TotalInputs == {Consecutive(v) : v \in [1..MaxQ -> ProfitLevels]}

\* undistributed profits: the quarters 1..MaxQ, at most one of them missing
UndistInputs ==
    {SeriesOn(D, {}) : D \in {E \in SUBSET (1..MaxQ) : Cardinality(E) >= MaxQ - 1}}

corporateIdle == <<appVars, series, pct, result, trimmed, bandVars, streakVars, reconcileVars,
                   ingestVars, extractVars, viewVars>>

InitCorporate ==
    /\ unit = "corporate" /\ pc = "start"
    /\ total \in TotalInputs
    /\ undist_s \in UndistInputs
    /\ common \in {Index(total), Tail(Index(total))}
    /\ cut \in Cuts
    /\ ret_rate = None
    /\ series = None /\ pct = None /\ result = None /\ trimmed = None
    /\ ParkBand /\ ParkStreak /\ ParkReconcile /\ ParkIngest /\ ParkExtract /\ ParkView
    /\ ParkApp

CorporateRetention ==
    /\ unit = "corporate" /\ pc = "start"
    /\ ret_rate' = retention_rate(common, undist_s, total, cut)
    /\ pc' = "retention"
    /\ UNCHANGED <<unit, total, undist_s, common, cut, corporateIdle>>

NextCorporate == CorporateRetention

SpecCorporate == InitCorporate /\ [][NextCorporate]_vars

\* C4: in the retention-rate series every quarter whose total profits are exactly zero
\* carries the undefined marker (NaN), not 0
C4_ZeroDenominatorUndefined ==
    (pc = "retention" /\ ret_rate # None) =>
        \A j \in 1..Len(ret_rate) :
            (\E i \in 1..Len(total) : total[i].date = ret_rate[j].date
                                      /\ total[i].value = F(0))
                => IsNaN(ret_rate[j].value)

\* what the code does keep: a quarter with non-zero total profits carries
\* undistributed / total * 100 whatever the other quarters hold
C4_OtherQuartersUnaffected ==
    (pc = "retention" /\ ret_rate # None) =>
        \A j \in 1..Len(ret_rate) :
            \A i \in 1..Len(total) :
                (total[i].date = ret_rate[j].date /\ total[i].value # F(0)) =>
                    /\ HasDate(undist_s, ret_rate[j].date)
                    /\ ret_rate[j].value =
                         FMul(FDiv(ValueAt(undist_s, ret_rate[j].date), total[i].value), F(100))

---------------------------------------------------------------------------
(* Index reconciliation in intersection mode: the WTI/Brent spread of the   *)
(* energy view and the Beveridge curve of the labor view                   *)

\* Index.sort_values() of an index without duplicates
sort_values(idx) == SortedInts({idx[i] : i \in 1..Len(idx)})

\* a - b of two series on the same index
series_sub(a, b) == [i \in 1..Len(a) |-> Obs(a[i].date, FSub(a[i].value, b[i].value))]

\* energy.py:495-497: nothing is aligned when either price series is empty
energy_spread(wti_t, brent_t) ==
    IF Len(wti_t) > 0 /\ Len(brent_t) > 0
    THEN LET common_p == index_intersection(Index(wti_t), Index(brent_t))
         IN  [index |-> common_p,
              left |-> reindex(wti_t, common_p),
              right |-> reindex(brent_t, common_p),
              spread |-> series_sub(reindex(brent_t, common_p), reindex(wti_t, common_p))]
    ELSE None

\* labor.py:450  if len(common_idx) > 12
BeveridgeMin == 12

\* labor.py:449-452: the two series are re-indexed only when more than 12 months
\* are common
beveridge(openings, unemp) ==
    LET common_idx == sort_values(index_intersection(Index(openings), Index(unemp)))
    IN  IF Len(common_idx) > BeveridgeMin
        THEN [index |-> common_idx,
              left |-> reindex(openings, common_idx),
              right |-> reindex(unemp, common_idx),
              spread |-> None]
        ELSE [index |-> common_idx, left |-> None, right |-> None, spread |-> None]

MaxD == 4
LongD == 14
MaxMissing == 1

\* the series on the dates D (ascending) whose value at d is d + off
SeriesFrom(D, off) ==
    LET ds == SortedInts(D)
    IN  [i \in 1..Len(ds) |-> Obs(ds[i], F(ds[i] + off))]

\* date sets: every subset of a short range, and a long range with a few gaps
ReconcileDates ==
    (SUBSET (1..MaxD))
    \cup {(1..LongD) \ G : G \in {H \in SUBSET (1..LongD) : Cardinality(H) <= MaxMissing}}

reconcileIdle == <<appVars, pctVars, bandVars, streakVars, trimVars, corporateVars,
                   ingestVars, extractVars, viewVars>>

InitReconcile ==
    /\ unit = "reconcile" /\ pc = "start"
    /\ lhs \in {SeriesFrom(D, 10) : D \in ReconcileDates}
    /\ rhs \in {SeriesFrom(D, off) : D \in ReconcileDates, off \in {10, 20}}
    /\ (Len(lhs) > MaxD) = (Len(rhs) > MaxD)
    /\ frame = None
    /\ ParkPct /\ ParkBand /\ ParkStreak /\ ParkTrim /\ ParkCorporate
    /\ ParkIngest /\ ParkExtract /\ ParkView
    /\ ParkApp

EnergySpread ==
    /\ unit = "reconcile" /\ pc = "start"
    /\ frame' = energy_spread(lhs, rhs)
    /\ pc' = "energy_spread"
    /\ UNCHANGED <<unit, lhs, rhs, reconcileIdle>>

LaborBeveridge ==
    /\ unit = "reconcile" /\ pc = "start"
    /\ frame' = beveridge(lhs, rhs)
    /\ pc' = "beveridge"
    /\ UNCHANGED <<unit, lhs, rhs, reconcileIdle>>

NextReconcile == EnergySpread \/ LaborBeveridge

SpecReconcile == InitReconcile /\ [][NextReconcile]_vars

\* the rows of s at the dates of idx, in the order of idx
RowsAt(s, idx) == [k \in 1..Len(idx) |-> CHOOSE o \in {s[i] : i \in 1..Len(s)} : o.date = idx[k]]

IsAscending(idx) == \A i, j \in 1..Len(idx) : i < j => idx[i] < idx[j]

\* C6: intersection-mode reconciliation returns exactly the timestamps present in
\* every series, ascending, with each series' values at those timestamps unchanged;
\* a series reconciled with itself comes back unchanged and two series with disjoint
\* timestamps give an empty frame
C6_Intersection ==
    (pc \in {"energy_spread", "beveridge"} /\ frame # None) =>
        /\ {frame.index[k] : k \in 1..Len(frame.index)} = Dates(lhs) \cap Dates(rhs)
        /\ IsAscending(frame.index)
        /\ frame.left # None =>
             /\ frame.left = RowsAt(lhs, frame.index)
             /\ frame.right = RowsAt(rhs, frame.index)
             /\ lhs = rhs => frame.left = lhs /\ frame.right = lhs
        /\ Dates(lhs) \cap Dates(rhs) = {} => frame.index = <<>>

\* two price series that share some dates and each hold a date the other lacks
\* have been aligned on the shared dates
C6_Witness ==
    /\ pc = "energy_spread" /\ frame # None
    /\ Len(frame.index) > 0
    /\ Dates(lhs) \ Dates(rhs) # {} /\ Dates(rhs) \ Dates(lhs) # {}
    /\ frame.left # lhs /\ frame.right # rhs

---------------------------------------------------------------------------
(* Period parsers.  A string is a sequence of one-character strings; a      *)
(* parser returns a timestamp, NaT, or raises                              *)

Digits == <<"0", "1", "2", "3", "4", "5", "6", "7", "8", "9">>
IsDigit(c) == \E k \in 1..10 : Digits[k] = c
DigitVal(c) == (CHOOSE k \in 1..10 : Digits[k] = c) - 1
IsDigits(s) == Len(s) > 0 /\ \A i \in 1..Len(s) : IsDigit(s[i])

RECURSIVE DigitsValue(_)
DigitsValue(s) ==
    IF s = <<>> THEN 0
    ELSE DigitsValue(SubSeq(s, 1, Len(s) - 1)) * 10 + DigitVal(s[Len(s)])

Raise == [kind |-> "raise"]
NaT == [kind |-> "NaT"]
Skip == [kind |-> "skip"]
Stamp(y, m, d) == [kind |-> "ts", year |-> y, month |-> m, day |-> d]

\* int(s) of a string of decimal digits; ValueError for the other strings of the
\* inputs (letters, the empty string)
py_int(s) == IF IsDigits(s) THEN [kind |-> "int", n |-> DigitsValue(s)] ELSE Raise

\* a float() that reads what is not a number as 0
py_float_zero(s) == [kind |-> "float", v |-> F(IF IsDigits(s) THEN DigitsValue(s) ELSE 0)]

\* float(s) of a string of decimal digits; ValueError for "-" and ""
py_float(s) == IF IsDigits(s) THEN [kind |-> "float", v |-> F(DigitsValue(s))] ELSE Raise

RECURSIVE str_int(_)
\* str(n) for n >= 0
str_int(n) ==
    IF n < 10 THEN <<Digits[n + 1]>>
    ELSE str_int(n \div 10) \o <<Digits[(n % 10) + 1]>>

\* f"{n:02d}"
format_02d(n) ==
    IF n < 0 THEN <<"-">> \o str_int(-n)
    ELSE IF n < 10 THEN <<"0">> \o str_int(n)
    ELSE str_int(n)

contains(s, c) == \E i \in 1..Len(s) : s[i] = c
startswith(s, c) == Len(s) > 0 /\ s[1] = c

RECURSIVE split(_, _)
\* s.split(sep) for a one-character separator
split(s, sep) ==
    IF ~contains(s, sep) THEN <<s>>
    ELSE LET i == CHOOSE k \in 1..Len(s) : s[k] = sep /\ \A j \in 1..(k - 1) : s[j] # sep
         IN  <<SubSeq(s, 1, i - 1)>> \o split(SubSeq(s, i + 1, Len(s)), sep)

RECURSIVE lstrip(_)
lstrip(s) == IF s # <<>> /\ s[1] = " " THEN lstrip(Tail(s)) ELSE s
RECURSIVE rstrip(_)
rstrip(s) == IF s # <<>> /\ s[Len(s)] = " " THEN rstrip(SubSeq(s, 1, Len(s) - 1)) ELSE s
strip(s) == rstrip(lstrip(s))

DaysInMonth(y, m) ==
    IF m = 2 THEN (IF IsLeap(y) THEN 29 ELSE 28)
    ELSE IF m \in {4, 6, 9, 11} THEN 30 ELSE 31

\* pd.Timestamp(s) on the strings the parsers hand to it: "" is NaT, a
\* year-month-day string of digits is that day when the day exists, and every
\* other string of the inputs (a month 13, letters in the year) raises
Timestamp(s) ==
    IF s = <<>> THEN NaT
    ELSE LET parts == split(s, "-")
         IN  IF /\ Len(parts) = 3
                /\ \A k \in 1..3 : IsDigits(parts[k])
                /\ Len(parts[1]) = 4 /\ Len(parts[2]) \in 1..2 /\ Len(parts[3]) \in 1..2
             THEN LET y == DigitsValue(parts[1])
                      m == DigitsValue(parts[2])
                      d == DigitsValue(parts[3])
                  IN  IF y >= 1 /\ m \in 1..12 /\ d \in 1..DaysInMonth(y, m)
                      THEN Stamp(y, m, d) ELSE Raise
             ELSE Raise

\* the first month of quarter q taken as the last one
quarter_month_end(q) == q * 3

\* int(q) * 3 - 2  # Q1->1, Q2->4, Q3->7, Q4->10
quarter_month(q) == q * 3 - 2

\* the quarterly branch shared by the two BEA parsers:  year, q = p.split("Q")
quarter_branch(p) ==
    LET parts == split(p, "Q")
    IN  IF Len(parts) # 2 THEN Raise
        ELSE LET q == py_int(parts[2])
             IN  IF q = Raise THEN Raise
                 ELSE Timestamp(parts[1] \o <<"-">> \o format_02d(quarter_month(q.n))
                                \o <<"-", "0", "1">>)

\* utils/bea.py:61-74: only the last branch catches the error of pd.Timestamp
period_to_date(p) ==
    LET s == strip(p)
    IN  IF contains(s, "Q") THEN quarter_branch(s)
        ELSE IF Len(s) = 4 THEN Timestamp(s \o <<"-", "0", "1", "-", "0", "1">>)
        ELSE IF Timestamp(s) = Raise THEN NaT ELSE Timestamp(s)

\* modules/corporate.py:120-127
parse_period(p) ==
    LET s == strip(p)
    IN  IF contains(s, "Q") THEN quarter_branch(s)
        ELSE IF Len(s) = 4 THEN Timestamp(s \o <<"-", "0", "1", "-", "0", "1">>)
        ELSE NaT

M13 == <<"M", "1", "3">>
A01 == <<"A", "0", "1">>

\* f"{year}-{month:02d}-01" of a month code whose digits follow its first letter
month_stamp(year, n) == Timestamp(year \o <<"-">> \o format_02d(n) \o <<"-", "0", "1">>)

\* utils/bls.py:43-53: the date of an observation, or Skip for `continue'
fetch_series_date(p, year) ==
    IF startswith(p, "M") /\ p # M13
    THEN IF py_int(Tail(p)) = Raise THEN Raise ELSE month_stamp(year, py_int(Tail(p)).n)
    ELSE IF startswith(p, "Q")
    THEN IF py_int(Tail(p)) = Raise THEN Raise
         ELSE month_stamp(year, quarter_month(py_int(Tail(p)).n))
    ELSE IF p = A01 THEN Timestamp(year \o <<"-", "0", "1", "-", "0", "1">>)
    ELSE Skip

FirstLabelYear == 2021
NumLabelYears == 4
LabelYears == FirstLabelYear..(FirstLabelYear + NumLabelYears - 1)

QuarterLabel(y, n) == str_int(y) \o <<"Q">> \o str_int(n)

\* BEA labels: quarters 1..5, a non-numeric quarter, the annual label, an ISO
\* date, a padded label, letters, the empty string
BeaLabels ==
    {QuarterLabel(y, n) : y \in LabelYears, n \in 1..5}
    \cup {str_int(y) \o <<"Q", "x">> : y \in LabelYears}
    \cup {str_int(y) : y \in LabelYears}
    \cup {str_int(y) \o <<"-", "0", "7", "-", "0", "1">> : y \in LabelYears}
    \cup {<<" ">> \o QuarterLabel(y, 3) \o <<" ">> : y \in LabelYears}
    \cup {<<"a", "b", "c", "d">>, <<>>}

\* BLS period codes
BlsPeriods ==
    {<<"Q", "0", Digits[n + 1]>> : n \in 1..5}
    \cup {<<"Q", Digits[n + 1]>> : n \in 1..4}
    \cup {<<"M", "0", "1">>, <<"M", "1", "2">>, M13, A01, <<"S", "0", "1">>}

parseIdle == <<appVars, pctVars, bandVars, streakVars, trimVars, corporateVars, reconcileVars,
               payload, tidy, extractVars, viewVars>>

InitParse ==
    /\ unit \in {"bea_period", "bls_period"} /\ pc = "start"
    /\ unit = "bea_period" => period \in [label : BeaLabels, year : {None}]
    /\ unit = "bls_period" => period \in [label : BlsPeriods, year : {str_int(y) : y \in LabelYears}]
    /\ stamp = None
    /\ payload = None /\ tidy = None
    /\ ParkPct /\ ParkBand /\ ParkStreak /\ ParkTrim /\ ParkCorporate
    /\ ParkReconcile /\ ParkExtract /\ ParkView
    /\ ParkApp

BeaPeriodToDate ==
    /\ unit = "bea_period" /\ pc = "start"
    /\ stamp' = period_to_date(period.label)
    /\ pc' = "period_to_date"
    /\ UNCHANGED <<unit, period, parseIdle>>

CorporateParsePeriod ==
    /\ unit = "bea_period" /\ pc = "start"
    /\ stamp' = parse_period(period.label)
    /\ pc' = "parse_period"
    /\ UNCHANGED <<unit, period, parseIdle>>

BlsPeriodDate ==
    /\ unit = "bls_period" /\ pc = "start"
    /\ stamp' = fetch_series_date(period.label, period.year)
    /\ pc' = "fetch_series_date"
    /\ UNCHANGED <<unit, period, parseIdle>>

NextParse == BeaPeriodToDate \/ CorporateParsePeriod \/ BlsPeriodDate

SpecParse == InitParse /\ [][NextParse]_vars

\* C7: every quarterly label YYYYQn with n in 1..4 parses to the first day of month
\* 3n-2 of year YYYY, in the two BEA parsers and in the quarterly branch of the BLS
\* fetch (period Qn or Q0n with the year YYYY beside it)
C7_QuarterlyLabels ==
    \A y \in LabelYears, n \in 1..4 :
        /\ (pc \in {"period_to_date", "parse_period"} /\ period.label = QuarterLabel(y, n))
               => stamp = Stamp(y, 3 * n - 2, 1)
        /\ (/\ pc = "fetch_series_date"
            /\ period.label \in {<<"Q">> \o str_int(n), <<"Q", "0">> \o str_int(n)}
            /\ period.year = str_int(y))
               => stamp = Stamp(y, 3 * n - 2, 1)

\* the third quarter of a year has been parsed by the corporate parser
C7_Witness ==
    /\ pc = "parse_period"
    /\ \E y \in LabelYears : period.label = QuarterLabel(y, 3) /\ stamp = Stamp(y, 7, 1)

---------------------------------------------------------------------------
(* Ingestion: the BEA and BLS responses are turned into tidy tables         *)

\* series identifiers, in string order
SeriesIds == <<"A", "B">>
SeriesRank(sid) == CHOOSE k \in 1..Len(SeriesIds) : SeriesIds[k] = sid

\* sort key of a Date cell; sort_values puts NaT last
DateKey(ts) == IF ts = NaT THEN 99999999 ELSE ts.year * 10000 + ts.month * 100 + ts.day

\* DataFrame.sort_values: the rows in ascending key order, ties in input order
StableSort(rows, keys) ==
    LET n == Len(rows)
        pos(i) == 1 + Cardinality({j \in 1..n : keys[j] < keys[i]
                                                \/ (keys[j] = keys[i] /\ j < i)})
    IN  [k \in 1..n |-> rows[CHOOSE i \in 1..n : pos(i) = k]]

Ok(rows) == [ok |-> TRUE, rows |-> rows]
Failed(e) == [ok |-> FALSE, error |-> e]

\* .str.replace(",", "", regex=False)
remove_commas(s) == SelectSeq(s, LAMBDA c : c # ",")

\* utils/bea.py:47-53
bea_data_value(s) ==
    LET t == remove_commas(s)
    IN  py_float(IF t = <<>> THEN <<"0">> ELSE t)

\* modules/corporate.py:112-115: what does not parse is NaN, and NaN is filled with 0
corporate_data_value(s) ==
    LET v == py_float(remove_commas(s))
    IN  IF v = Raise THEN F(0) ELSE v.v

sort_by_date(table) == StableSort(table, [i \in 1..Len(table) |-> DateKey(table[i].Date)])

\* utils/bea.py:43-58.  An empty Data list gives a frame without columns, and
\* df["DataValue"] raises KeyError
fetch_nipa(rows) ==
    IF rows = <<>> THEN Failed("KeyError")
    ELSE IF \E i \in 1..Len(rows) : bea_data_value(rows[i].DataValue) = Raise
    THEN Failed("ValueError")
    ELSE IF \E i \in 1..Len(rows) : period_to_date(rows[i].TimePeriod) = Raise
    THEN Failed("ValueError")
    ELSE Ok(sort_by_date([i \in 1..Len(rows) |->
                [SeriesCode |-> rows[i].SeriesCode,
                 TimePeriod |-> rows[i].TimePeriod,
                 DataValue |-> bea_data_value(rows[i].DataValue).v,
                 Date |-> period_to_date(rows[i].TimePeriod)]]))

\* modules/corporate.py:111-117
corporate_fetch_nipa(rows) ==
    IF rows = <<>> THEN Failed("KeyError")
    ELSE IF \E i \in 1..Len(rows) : parse_period(rows[i].TimePeriod) = Raise
    THEN Failed("ValueError")
    ELSE Ok(sort_by_date(SelectSeq(
                [i \in 1..Len(rows) |->
                    [SeriesCode |-> rows[i].SeriesCode,
                     TimePeriod |-> rows[i].TimePeriod,
                     DataValue |-> corporate_data_value(rows[i].DataValue),
                     Date |-> parse_period(rows[i].TimePeriod)]],
                LAMBDA r : r.Date # NaT)))

Row(sid, date, val) == [kind |-> "row", series_id |-> sid, date |-> date, value |-> val]

\* utils/bls.py:38-60, one observation: a row, Skip (continue) or Raise
fetch_series_obs(obs) ==
    LET date == fetch_series_date(obs.period, obs.year)
    IN  IF date \in {Skip, Raise} THEN date
        ELSE IF py_float(obs.value) = Raise THEN Skip
        ELSE Row(obs.seriesID, date, py_float(obs.value).v)

\* modules/labor.py:118-129
load_bls_obs(obs) ==
    IF ~startswith(obs.period, "M") \/ obs.period = M13 THEN Skip
    ELSE IF py_int(Tail(obs.period)) = Raise THEN Raise
    ELSE LET date == month_stamp(obs.year, py_int(Tail(obs.period)).n)
         IN  IF date = Raise THEN Raise
             ELSE IF py_float(obs.value) = Raise THEN Skip
             ELSE Row(obs.seriesID, date, py_float(obs.value).v)

\* modules/inflation.py:108-117: the try covers the date and the value
load_cpi_obs(obs) ==
    IF ~startswith(obs.period, "M") \/ obs.period = M13 THEN Skip
    ELSE IF py_int(Tail(obs.period)) = Raise THEN Skip
    ELSE LET date == month_stamp(obs.year, py_int(Tail(obs.period)).n)
         IN  IF date = Raise \/ py_float(obs.value) = Raise THEN Skip
             ELSE Row(obs.seriesID, date, py_float(obs.value).v)

\* pd.DataFrame(rows).sort_values(["series_id", "date"]) of the per-observation
\* outcomes; without rows the frame has no columns and sort_values raises KeyError
bls_frame(outs) ==
    IF \E i \in 1..Len(outs) : outs[i] = Raise THEN Failed("ValueError")
    ELSE LET kept == SelectSeq(outs, LAMBDA o : o # Skip)
             rows == [i \in 1..Len(kept) |->
                         [series_id |-> kept[i].series_id, date |-> kept[i].date,
                          value |-> kept[i].value]]
         IN  IF rows = <<>> THEN Failed("KeyError")
             ELSE Ok(StableSort(rows, [i \in 1..Len(rows) |->
                        SeriesRank(rows[i].series_id) * 100000000 + DateKey(rows[i].date)]))

fetch_series(data) == bls_frame([i \in 1..Len(data) |-> fetch_series_obs(data[i])])
load_bls_data(data) == bls_frame([i \in 1..Len(data) |-> load_bls_obs(data[i])])
load_cpi_data(data) == bls_frame([i \in 1..Len(data) |-> load_cpi_obs(data[i])])

MaxRows == 2
MaxObs == 2

\* TimePeriod labels of the BEA payloads: two quarters, a fifth quarter, a
\* non-numeric quarter, a year, an ISO date, letters, the empty string
PayloadLabels ==
    {QuarterLabel(FirstLabelYear, 4), QuarterLabel(FirstLabelYear + 1, 1),
     QuarterLabel(FirstLabelYear + 1, 5),
     str_int(FirstLabelYear + 1) \o <<"Q", "x">>,
     str_int(FirstLabelYear),
     str_int(FirstLabelYear + 1) \o <<"-", "0", "7", "-", "0", "1">>,
     <<"a", "b", "c", "d">>, <<>>}

BeaRows == [SeriesCode : {"A"}, TimePeriod : PayloadLabels,
            DataValue : {<<"7">>, <<"1", ",", "2">>, <<>>}]

\* the observations of the series of a BLS response, one series after the other
BlsObs == [seriesID : {"A", "B"},
           period : {<<"M", "0", "1">>, <<"M", "1", "2">>, M13, <<"Q", "0", "3">>,
                     <<"S", "0", "1">>},
           year : {str_int(FirstLabelYear), str_int(FirstLabelYear + 1)},
           value : {<<"7">>, <<"-">>}]

ingestIdle == <<appVars, pctVars, bandVars, streakVars, trimVars, corporateVars, reconcileVars,
                period, stamp, extractVars, viewVars>>

InitIngest ==
    /\ unit \in {"bea", "bls"} /\ pc = "start"
    /\ unit = "bea" => payload \in SeqsUpTo(BeaRows, MaxRows)
    /\ unit = "bls" => payload \in SeqsUpTo(BlsObs, MaxObs)
    /\ tidy = None
    /\ period = None /\ stamp = None
    /\ ParkPct /\ ParkBand /\ ParkStreak /\ ParkTrim /\ ParkCorporate
    /\ ParkReconcile /\ ParkExtract /\ ParkView
    /\ ParkApp

BeaFetchNipa ==
    /\ unit = "bea" /\ pc = "start"
    /\ tidy' = fetch_nipa(payload)
    /\ pc' = "fetch_nipa"
    /\ UNCHANGED <<unit, payload, ingestIdle>>

CorporateFetchNipa ==
    /\ unit = "bea" /\ pc = "start"
    /\ tidy' = corporate_fetch_nipa(payload)
    /\ pc' = "corporate_fetch_nipa"
    /\ UNCHANGED <<unit, payload, ingestIdle>>

BlsFetchSeries ==
    /\ unit = "bls" /\ pc = "start"
    /\ tidy' = fetch_series(payload)
    /\ pc' = "fetch_series"
    /\ UNCHANGED <<unit, payload, ingestIdle>>

LaborLoadBlsData ==
    /\ unit = "bls" /\ pc = "start"
    /\ tidy' = load_bls_data(payload)
    /\ pc' = "load_bls_data"
    /\ UNCHANGED <<unit, payload, ingestIdle>>

InflationLoadCpiData ==
    /\ unit = "bls" /\ pc = "start"
    /\ tidy' = load_cpi_data(payload)
    /\ pc' = "load_cpi_data"
    /\ UNCHANGED <<unit, payload, ingestIdle>>

NextIngest ==
    \/ BeaFetchNipa
    \/ CorporateFetchNipa
    \/ BlsFetchSeries
    \/ LaborLoadBlsData
    \/ InflationLoadCpiData

SpecIngest == InitIngest /\ [][NextIngest]_vars

IsQuarterly(l) ==
    /\ Len(l) = 6 /\ IsDigits(SubSeq(l, 1, 4)) /\ l[5] = "Q"
    /\ l[6] \in {"1", "2", "3", "4"}
IsAnnual(l) == Len(l) = 4 /\ IsDigits(l)
IsIsoDate(l) == Len(l) = 10 /\ Timestamp(l) \notin {Raise, NaT}
ValidLabel(l) == IsQuarterly(l) \/ IsAnnual(l) \/ IsIsoDate(l)

CountRows(rows, Test(_)) == Cardinality({k \in 1..Len(rows) : Test(rows[k])})

\* C8: a BEA fetch of a payload with rows never fails because of a TimePeriod, its
\* tidy table holds no row whose TimePeriod is not a quarterly, annual or ISO-date
\* label, and it holds every row whose TimePeriod is one
C8_MalformedRowsDropped ==
    (pc \in {"fetch_nipa", "corporate_fetch_nipa"} /\ payload # <<>>) =>
        /\ tidy.ok
        /\ \A l \in PayloadLabels :
               CountRows(tidy.rows, LAMBDA r : r.TimePeriod = l)
                   = IF ValidLabel(l)
                     THEN CountRows(payload, LAMBDA r : r.TimePeriod = l)
                     ELSE 0

BlsPaths == {"fetch_series", "load_bls_data", "load_cpi_data"}

\* the month code Mnn
MonthCode(m) == <<"M">> \o format_02d(m)

\* obs is an observation of the series sid for the month m of the year y
IsMonthly(obs, sid, y, m) ==
    obs.seriesID = sid /\ obs.year = str_int(y) /\ obs.period = MonthCode(m)

IsNumber(s) == IsDigits(s)

\* the number of quarterly observations of sid that utils.bls dates on the first of
\* month m of year y
QuarterlyRows(path, sid, y, m) ==
    IF path # "fetch_series" THEN 0
    ELSE Cardinality({i \in 1..Len(payload) :
            /\ payload[i].seriesID = sid /\ payload[i].year = str_int(y)
            /\ IsNumber(payload[i].value)
            /\ \E n \in 1..4 : payload[i].period = <<"Q", "0">> \o str_int(n)
                               /\ m = 3 * n - 2})

RowsDated(sid, y, m) ==
    CountRows(tidy.rows, LAMBDA r : r.series_id = sid /\ r.date = Stamp(y, m, 1))

IngestYears == {FirstLabelYear, FirstLabelYear + 1}

---------------------------------------------------------------------------
(* Series extractors                                                        *)

\* Series.sort_index(): ascending by timestamp, NaT last
sort_index(s) == StableSort(s, [i \in 1..Len(s) |-> DateKey(s[i].date)])

\* df.set_index("Date")["DataValue"] of the rows of a BEA table
bea_column(rows) == [i \in 1..Len(rows) |-> Obs(rows[i].Date, rows[i].DataValue)]

\* the selection without its mask: every row of the table
get_series_unmasked(table, series_code) == sort_index(bea_column(table))

\* utils/bea.py:77-81
get_series(table, series_code) ==
    sort_index(bea_column(SelectSeq(table, LAMBDA r : r.SeriesCode = series_code)))

\* modules/gdp.py:94-97
get_series_values(table, c) ==
    sort_index(bea_column(SelectSeq(table, LAMBDA r : r.SeriesCode = c)))

\* modules/corporate.py:130-132
corporate_get(table, c) ==
    sort_index(bea_column(SelectSeq(table, LAMBDA r : r.SeriesCode = c)))

\* modules/labor.py:165-168
get_s(table, series_id) ==
    LET rows == SelectSeq(table, LAMBDA r : r.series_id = series_id)
    IN  sort_index([i \in 1..Len(rows) |-> Obs(rows[i].date, rows[i].value)])

MaxTable == 2

\* identifiers a caller asks for; the last one occurs in no table
Codes == {"A", "B", "Z"}

TableLabels == {QuarterLabel(FirstLabelYear, 4), QuarterLabel(FirstLabelYear + 1, 1), <<>>}

TableRows == [SeriesCode : {"A", "B"}, TimePeriod : TableLabels,
              DataValue : {<<"7">>, <<"8">>}]

TableObs == [seriesID : {"A", "B"}, period : {<<"M", "0", "1">>, <<"M", "1", "2">>},
             year : {str_int(FirstLabelYear + 1)}, value : {<<"7">>, <<"8">>}]

\* the tables the ingestion returns for the responses above
TablesOf(outcomes) == {o.rows : o \in {x \in outcomes : x.ok}}
BeaTables == TablesOf({fetch_nipa(p) : p \in SeqsUpTo(TableRows, MaxTable)})
CorporateTables == TablesOf({corporate_fetch_nipa(p) : p \in SeqsUpTo(TableRows, MaxTable)})
BlsTables == TablesOf({load_bls_data(p) : p \in SeqsUpTo(TableObs, MaxTable)})

extractIdle == <<appVars, pctVars, bandVars, streakVars, trimVars, corporateVars, reconcileVars,
                 ingestVars, viewVars>>

InitExtract ==
    /\ unit \in {"bea_table", "corporate_table", "bls_table"} /\ pc = "start"
    /\ unit = "bea_table" => df \in BeaTables
    /\ unit = "corporate_table" => df \in CorporateTables
    /\ unit = "bls_table" => df \in BlsTables
    /\ code \in Codes
    /\ extracted = None
    /\ ParkPct /\ ParkBand /\ ParkStreak /\ ParkTrim /\ ParkCorporate
    /\ ParkReconcile /\ ParkIngest /\ ParkView
    /\ ParkApp

BeaGetSeries ==
    /\ unit = "bea_table" /\ pc = "start"
    /\ extracted' = get_series(df, code)
    /\ pc' = "get_series"
    /\ UNCHANGED <<unit, df, code, extractIdle>>

\* gdp.render returns before extracting when the table is empty (gdp.py:137-139)
GdpGetSeriesValues ==
    /\ unit = "bea_table" /\ pc = "start"
    /\ df # <<>>
    /\ extracted' = get_series_values(df, code)
    /\ pc' = "get_series_values"
    /\ UNCHANGED <<unit, df, code, extractIdle>>

CorporateGet ==
    /\ unit = "corporate_table" /\ pc = "start"
    /\ extracted' = corporate_get(df, code)
    /\ pc' = "_get"
    /\ UNCHANGED <<unit, df, code, extractIdle>>

LaborGetS ==
    /\ unit = "bls_table" /\ pc = "start"
    /\ extracted' = get_s(df, code)
    /\ pc' = "get_s"
    /\ UNCHANGED <<unit, df, code, extractIdle>>

NextExtract == BeaGetSeries \/ GdpGetSeriesValues \/ CorporateGet \/ LaborGetS

SpecExtract == InitExtract /\ [][NextExtract]_vars

\* the observations of the identifier c in a table, as (timestamp, value) pairs
RowCode(r) == IF unit = "bls_table" THEN r.series_id ELSE r.SeriesCode
RowObs(r) == IF unit = "bls_table" THEN Obs(r.date, r.value) ELSE Obs(r.Date, r.DataValue)
Occurs(c) == \E k \in 1..Len(df) : RowCode(df[k]) = c

\* timestamp a is not after timestamp b
NotAfter(a, b) ==
    \/ a.year < b.year
    \/ a.year = b.year /\ a.month < b.month
    \/ a.year = b.year /\ a.month = b.month /\ a.day <= b.day

\* C10: an extractor returns exactly the observations of the requested identifier,
\* each as often as the table holds it, in ascending order of timestamp (an
\* observation without timestamp after the dated ones), and the empty series when
\* the identifier does not occur in the table
C10_Extract ==
    pc \in {"get_series", "get_series_values", "_get", "get_s"} =>
        /\ \A o \in {RowObs(df[k]) : k \in 1..Len(df)} \cup {extracted[i] : i \in 1..Len(extracted)} :
               CountRows(extracted, LAMBDA x : x = o)
                   = CountRows(df, LAMBDA r : RowCode(r) = code /\ RowObs(r) = o)
        /\ \A i, j \in 1..Len(extracted) :
               i < j => \/ extracted[j].date = NaT
                        \/ /\ extracted[i].date # NaT
                           /\ NotAfter(extracted[i].date, extracted[j].date)
        /\ ~Occurs(code) => extracted = <<>>

\* one of two rows of a BEA table belongs to the requested identifier
C10_Witness ==
    /\ pc = "get_series"
    /\ Len(df) = 2 /\ Len(extracted) = 1
    /\ Occurs(code) /\ \E k \in 1..2 : RowCode(df[k]) # code

\* an identifier that occurs in no row of a labor table has been asked for
C10_AbsentIdentifier ==
    /\ pc = "get_s" /\ df # <<>> /\ ~Occurs(code) /\ extracted = <<>>

---------------------------------------------------------------------------
(* Corporate view: loading the three sources and what render shows after   *)

\* upstream error texts
ErrorTexts == {"timeout", "HTTP 500"}

FetchFailed(e) == [ok |-> FALSE, error |-> e]

Message(level, source, text) == [level |-> level, source |-> source, text |-> text]

\* a failed load that leaves no trace in errs
load_err_silent(source, outcome) == <<>>

\* try: ... except Exception as e: errs.append(f"**{source}:** {e}")
load_err(source, outcome) ==
    IF outcome.ok THEN <<>> ELSE <<Message("warning", source, outcome.error)>>

\* corporate.py:158-168: quarterly, else annual, else an empty frame; no exception
\* leaves _load_undist
load_undist(q, a) ==
    IF q.ok THEN [ok |-> TRUE, rows |-> q.rows, overlap |-> q.overlap, freq |-> "Q"]
    ELSE IF a.ok THEN [ok |-> TRUE, rows |-> a.rows, overlap |-> a.overlap, freq |-> "A"]
    ELSE [ok |-> TRUE, rows |-> 0, overlap |-> 0, freq |-> "none"]

\* the sections drawn once the common index is long enough (corporate.py:280-380)
ProfitSections == {"kpi", "level_yoy_chart", "fin_nonfin_chart", "industry_chart"}

\* corporate.py:199-545.  A successful profits fetch is summarised by the length of
\* the common index, a GDP fetch by the length of the margin series, an
\* undistributed fetch by its number of rows and of overlapping quarters
corporate_render(f) ==
    LET undist == load_undist(f.undist_q, f.undist_a)
        errs == load_err("Profits (T61600D)", f.profits)
                \o load_err("GDP (T10105)", f.gdp)
                \o load_err("Undistributed (T62100D)", undist)
        margin == IF f.gdp.ok THEN f.gdp.overlap ELSE 0
    IN  IF ~f.profits.ok THEN [messages |-> errs, rendered |-> {}]
        ELSE IF f.profits.common < MinPeriods
        THEN [messages |-> errs \o <<Message("error", "render", "Not enough data")>>,
              rendered |-> {}]
        ELSE [messages |->
                  errs
                  \o (IF margin > 0 THEN <<>>
                      ELSE <<Message("info", "render", "GDP data unavailable")>>)
                  \o (IF undist.rows > 0
                      THEN (IF undist.overlap > MinOverlap THEN <<>>
                            ELSE <<Message("info", "render", "Not enough overlapping periods")>>)
                      ELSE <<Message("info", "render", "Undistributed profits no disponible")>>),
              rendered |->
                  ProfitSections
                  \cup (IF margin > 0 THEN {"margin_chart"} ELSE {})
                  \cup (IF undist.rows > 0 /\ undist.overlap > MinOverlap
                        THEN {"undistributed_chart"} ELSE {})
                  \cup {"snapshot_table"}]

MaxCommon == 5

ProfitsOutcomes ==
    {FetchFailed(e) : e \in ErrorTexts} \cup [ok : {TRUE}, common : 0..MaxCommon]
GdpOutcomes ==
    {FetchFailed(e) : e \in ErrorTexts} \cup [ok : {TRUE}, overlap : {0, MaxCommon}]
UndistOutcomes ==
    {FetchFailed(e) : e \in ErrorTexts}
    \cup {[ok |-> TRUE, rows |-> 0, overlap |-> 0]}
    \cup [ok : {TRUE}, rows : {MaxCommon + 1}, overlap : {MinOverlap, MaxCommon}]

corporateViewIdle == <<appVars, pctVars, bandVars, streakVars, trimVars, corporateVars,
                       reconcileVars, ingestVars, extractVars>>

InitCorporateView ==
    /\ unit = "corporate_view" /\ pc = "start"
    /\ fetches \in [profits : ProfitsOutcomes, gdp : GdpOutcomes,
                    undist_q : UndistOutcomes, undist_a : UndistOutcomes]
    /\ messages = <<>> /\ rendered = {} /\ raised = "none"
    /\ ParkPct /\ ParkBand /\ ParkStreak /\ ParkTrim /\ ParkCorporate
    /\ ParkReconcile /\ ParkIngest /\ ParkExtract
    /\ ParkApp

\* every exception of the three loads is caught (corporate.py:205-215)
CorporateRender ==
    /\ unit = "corporate_view" /\ pc = "start"
    /\ messages' = corporate_render(fetches).messages
    /\ rendered' = corporate_render(fetches).rendered
    /\ raised' = "none"
    /\ pc' = "corporate_render"
    /\ UNCHANGED <<unit, fetches, corporateViewIdle>>

NextCorporateView == CorporateRender

SpecCorporateView == InitCorporateView /\ [][NextCorporateView]_vars

\* the number of displayed messages of a level that name a source with a text
Shown(level, source, texts) ==
    Cardinality({k \in 1..Len(messages) :
        /\ messages[k].level = level /\ messages[k].source = source
        /\ messages[k].text \in texts})

\* C11: when the profits fetch fails, the corporate view shows a message that names
\* Profits (T61600D) with the upstream error text and draws nothing, whatever the
\* GDP and undistributed fetches returned
C11_PrimaryFailureStops ==
    (pc = "corporate_render" /\ ~fetches.profits.ok) =>
        /\ Shown("warning", "Profits (T61600D)", {fetches.profits.error}) = 1
        /\ rendered = {}

\* the profits fetch failed while the GDP and the quarterly undistributed fetch
\* succeeded with data
C11_Witness ==
    /\ pc = "corporate_render" /\ ~fetches.profits.ok
    /\ fetches.gdp.ok /\ fetches.gdp.overlap > 0
    /\ fetches.undist_q.ok /\ fetches.undist_q.overlap > MinOverlap
    /\ Len(messages) = 1

\* C12: when the profits fetch succeeds, each secondary source whose upstream
\* request failed gets exactly one warning naming it with the upstream error text,
\* and the view still draws the sections that do not need that source
C12_SecondaryFailureWarned ==
    (pc = "corporate_render" /\ fetches.profits.ok) =>
        /\ ~fetches.gdp.ok =>
               Shown("warning", "GDP (T10105)", {fetches.gdp.error}) = 1
        /\ (~fetches.undist_q.ok /\ ~fetches.undist_a.ok) =>
               Shown("warning", "Undistributed (T62100D)",
                     {fetches.undist_q.error, fetches.undist_a.error}) = 1
        /\ fetches.profits.common >= MinPeriods =>
               ProfitSections \cup {"snapshot_table"} \subseteq rendered

\* the GDP half of C12: a failed GDP fetch gets its one warning and the profit
\* sections are drawn
C12_GdpFailureWarned ==
    (pc = "corporate_render" /\ fetches.profits.ok /\ ~fetches.gdp.ok) =>
        /\ Shown("warning", "GDP (T10105)", {fetches.gdp.error}) = 1
        /\ fetches.profits.common >= MinPeriods =>
               ProfitSections \cup {"snapshot_table"} \subseteq rendered

---------------------------------------------------------------------------
(* Derived-metric helpers on empty and short series                        *)

\* a latest value that reads an empty series as 0
energy_last_zero(s) == IF Len(dropna(s)) > 0 THEN dropna(s)[Len(dropna(s))].value ELSE F(0)

\* energy.py:231-233
energy_last(s) == IF Len(dropna(s)) > 0 THEN dropna(s)[Len(dropna(s))].value ELSE NaN

\* energy.py:235-237
energy_prev(s, n) ==
    IF Len(dropna(s)) > n THEN dropna(s)[Len(dropna(s)) - n].value ELSE NaN

\* energy.py:239-240
energy_chg(s, n) == FSub(energy_last(s), energy_prev(s, n))

\* energy.py:242-245; the series of the model are indexed by date, and the cut is
\* <<>> for None or <<d>> for the first date kept
energy_trim(s, c) ==
    IF c = <<>> \/ Len(s) = 0 THEN s
    ELSE SelectSeq(s, LAMBDA o : o.date >= c[1])

\* rates.py:210
rates_last(s) == IF Len(dropna(s)) > 0 THEN dropna(s)[Len(dropna(s))].value ELSE NaN

\* rates.py:211
rates_prev(s) == IF Len(dropna(s)) >= 2 THEN dropna(s)[Len(dropna(s)) - 1].value ELSE NaN

\* rates.py:213-216: the share of observations not above val, in percent
rates_pctile(s, val) ==
    LET d == dropna(s)
    IN  IF Len(d) = 0 THEN NaN
        ELSE FMul(FDiv(F(Cardinality({i \in 1..Len(d) : ~FLess(val, d[i].value)})),
                       F(Len(d))),
                  F(100))

\* labor.py:171-173
mom_change(level_series) == diff(level_series)

MaxHelperLen == 3

HelperValues == {NaN, F(1), F(2)}

\* series of up to MaxHelperLen observations on consecutive dates, gaps as NaN
HelperInputs ==
    {[i \in 1..Len(vs) |-> Obs(i, vs[i])] : vs \in SeqsUpTo(HelperValues, MaxHelperLen)}

helperIdle == <<appVars, pct, streakVars, trimVars, corporateVars, reconcileVars,
                ingestVars, extractVars, viewVars>>

InitHelper ==
    /\ unit \in {"helper", "helper_band"} /\ pc = "start"
    /\ unit = "helper" =>
         /\ series \in HelperInputs
         /\ ParkBand
    /\ unit = "helper_band" =>
         /\ series = None
         /\ weekly \in {WeeklySeries(D, r) : D \in SUBSET BandDates, r \in BOOLEAN}
         /\ years \in 1..MaxYears
         /\ band = None
    /\ pct = None /\ result = None
    /\ ParkStreak /\ ParkTrim /\ ParkCorporate /\ ParkReconcile
    /\ ParkIngest /\ ParkExtract /\ ParkView
    /\ ParkApp

\* one helper applied to `series'
Apply(name, args, out) ==
    /\ unit = "helper" /\ pc = "start"
    /\ result' = [args |-> args, out |-> out]
    /\ pc' = name
    /\ UNCHANGED <<unit, series, bandVars, helperIdle>>

HelperEnergyLast == Apply("energy._last", <<>>, energy_last(series))
HelperEnergyPrev == \E n \in 1..2 : Apply("energy._prev", <<n>>, energy_prev(series, n))
HelperEnergyChg == \E n \in 1..2 : Apply("energy._chg", <<n>>, energy_chg(series, n))
HelperEnergyTrim ==
    \E c \in {<<>>} \cup {<<d>> : d \in 1..MaxHelperLen} :
        Apply("energy._trim", c, energy_trim(series, c))
HelperRatesLast == Apply("rates._last", <<>>, rates_last(series))
HelperRatesPrev == Apply("rates._prev", <<>>, rates_prev(series))
HelperRatesPctile ==
    \E v \in {F(1), F(2)} : Apply("rates._pctile", <<v>>, rates_pctile(series, v))
HelperRatesTrim ==
    \E c \in (0 - MaxHelperLen)..0 : Apply("rates._trim", <<c>>, rates_trim(series, c))
HelperInflationYoy == Apply("inflation.yoy", <<>>, yoy(series))
HelperLaborMomChange == Apply("labor.mom_change", <<>>, mom_change(series))
HelperLaborYoyPct == Apply("labor.yoy_pct", <<>>, yoy_pct(series))

HelperSeasonalBands ==
    /\ unit = "helper_band" /\ pc = "start"
    /\ band' = load_seasonal_bands(weekly, years)
    /\ pc' = "energy.load_seasonal_bands"
    /\ UNCHANGED <<unit, series, result, weekly, years, helperIdle>>

NextHelper ==
    \/ HelperEnergyLast
    \/ HelperEnergyPrev
    \/ HelperEnergyChg
    \/ HelperEnergyTrim
    \/ HelperRatesLast
    \/ HelperRatesPrev
    \/ HelperRatesPctile
    \/ HelperRatesTrim
    \/ HelperInflationYoy
    \/ HelperLaborMomChange
    \/ HelperLaborYoyPct
    \/ HelperSeasonalBands

SpecHelper == InitHelper /\ [][NextHelper]_vars

ScalarHelpers == {"energy._last", "energy._prev", "energy._chg",
                  "rates._last", "rates._prev", "rates._pctile"}
SeriesHelpers == {"energy._trim", "rates._trim", "inflation.yoy",
                  "labor.mom_change", "labor.yoy_pct"}

\* C13: on an empty series the scalar helpers return NaN and the series helpers
\* return the empty series; load_seasonal_bands returns an empty band for an empty
\* series and for a series whose observations all lie in its latest year
C13_EmptyInput ==
    /\ (pc \in ScalarHelpers /\ series = <<>>) => result.out = NaN
    /\ (pc \in SeriesHelpers /\ series = <<>>) => result.out = <<>>
    /\ pc = "energy.load_seasonal_bands" =>
         /\ weekly = <<>> => band = <<>>
         /\ (\A i, j \in 1..Len(weekly) : YearOf(weekly[i].date) = YearOf(weekly[j].date))
               => band = <<>>

\* the weekly change of an empty series has been asked for
C13_Witness ==
    /\ pc = "energy._chg" /\ series = <<>> /\ result.out = NaN

\* a band has been asked for a series of two observations of one year
C13_LatestYearOnly ==
    /\ pc = "energy.load_seasonal_bands" /\ Len(weekly) = 2
    /\ YearOf(weekly[1].date) = YearOf(weekly[2].date) /\ band = <<>>

---------------------------------------------------------------------------
(* GDP view: load, alignment of the five headline series, KPI row           *)

\* Series.loc[idx] raises KeyError when a label of idx is not in the index
loc_raises(s, idx) == \E k \in 1..Len(idx) : ~HasDate(s, idx[k])

\* Series.loc[idx] when every label is in the index
loc(s, idx) == reindex(s, idx)

\* gdp.py:148
gdp_common(t) ==
    index_intersection(index_intersection(Index(t.gdp), Index(t.consumption)),
                       Index(t.investment))

\* gdp.py:152  government = government.loc[common]
gdp_align_raises(t) == loc_raises(t.government, gdp_common(t))

\* gdp.py:149-153, the five series on the common index
gdp_align(t) ==
    [index |-> gdp_common(t),
     gdp |-> loc(t.gdp, gdp_common(t)),
     consumption |-> loc(t.consumption, gdp_common(t)),
     investment |-> loc(t.investment, gdp_common(t)),
     government |-> loc(t.government, gdp_common(t)),
     net_exports |-> fillna(reindex(t.net_exports, gdp_common(t)), F(0))]

GdpSections == {"kpi", "contributions_chart", "drilldowns", "heatmap_table"}

\* gdp.py:133-160.  load_data() is called outside any try; common[-1] and
\* common[-2] raise IndexError on an index of 0 or 1 timestamps
gdp_render(f) ==
    IF ~f.ok THEN [raised |-> f.error, messages |-> <<>>, rendered |-> {}, frame |-> None]
    ELSE IF f.rows = 0
    THEN [raised |-> "none",
          messages |-> <<Message("error", "render", "Could not load BEA data")>>,
          rendered |-> {}, frame |-> None]
    ELSE IF gdp_align_raises(f)
    THEN [raised |-> "KeyError", messages |-> <<>>, rendered |-> {}, frame |-> None]
    ELSE IF Len(gdp_align(f).index) < 2
    THEN [raised |-> "IndexError", messages |-> <<>>, rendered |-> {},
          frame |-> gdp_align(f)]
    ELSE [raised |-> "none", messages |-> <<>>, rendered |-> GdpSections,
          frame |-> gdp_align(f)]

MaxG == 5

\* date sets of a series of the table: every quarter, every quarter but one, none
GdpDateSets == {1..MaxG} \cup {(1..MaxG) \ {d} : d \in 1..MaxG} \cup {{}}

\* what load_data returns or raises: a failure of the request, or a table with rows
\* of which the five headline series are kept
GdpFetches ==
    {FetchFailed(e) : e \in ErrorTexts \cup {"KeyError: 'Results'"}}
    \cup {[ok |-> TRUE, rows |-> 1,
           gdp |-> SeriesFrom(1..n, 10),
           consumption |-> SeriesFrom(C, 20),
           investment |-> SeriesFrom(I, 30),
           government |-> SeriesFrom(G, 40),
           net_exports |-> SeriesFrom(X, 50)] :
             n \in 0..MaxG, C \in GdpDateSets \ {{}}, I \in GdpDateSets \ {{}},
             G \in GdpDateSets, X \in GdpDateSets}

gdpViewIdle == <<appVars, pctVars, bandVars, streakVars, trimVars, corporateVars,
                 lhs, rhs, ingestVars, extractVars>>

InitGdpView ==
    /\ unit = "gdp_view" /\ pc = "start"
    /\ fetches \in GdpFetches
    /\ messages = <<>> /\ rendered = {} /\ raised = "none"
    /\ lhs = None /\ rhs = None /\ frame = None
    /\ ParkPct /\ ParkBand /\ ParkStreak /\ ParkTrim /\ ParkCorporate
    /\ ParkIngest /\ ParkExtract
    /\ ParkApp

GdpRender ==
    /\ unit = "gdp_view" /\ pc = "start"
    /\ messages' = gdp_render(fetches).messages
    /\ rendered' = gdp_render(fetches).rendered
    /\ raised' = gdp_render(fetches).raised
    /\ frame' = gdp_render(fetches).frame
    /\ pc' = "gdp_render"
    /\ UNCHANGED <<unit, fetches, gdpViewIdle>>

NextGdpView == GdpRender

SpecGdpView == InitGdpView /\ [][NextGdpView]_vars

\* the timestamps GDP, consumption and investment share
GdpCommon == Dates(fetches.gdp) \cap Dates(fetches.consumption) \cap Dates(fetches.investment)

\* C14: when GDP, consumption and investment share fewer than 4 timestamps, the GDP
\* view reports insufficient data and stops: no exception, no KPI, no chart
C14_ShortWindowReported ==
    (pc = "gdp_render" /\ fetches.ok /\ Cardinality(GdpCommon) < MinPeriods) =>
        /\ raised = "none"
        /\ rendered = {}
        /\ \E k \in 1..Len(messages) : messages[k].level = "error"

\* C15: every failure of the BEA request ends the GDP view with the displayed
\* message 'Could not load BEA data' and without an exception leaving render
C15_FetchFailureDisplayed ==
    (pc = "gdp_render" /\ ~fetches.ok) =>
        /\ raised = "none"
        /\ Shown("error", "render", {"Could not load BEA data"}) = 1

\* C18: when GDP, consumption and investment share a timestamp, the alignment
\* completes and the five series carry exactly the shared timestamps in ascending
\* order, government and net exports being 0 where they have no observation
C18_AlignedFrame ==
    (pc = "gdp_render" /\ fetches.ok /\ GdpCommon # {}) =>
        /\ frame # None
        /\ frame.index = SortedInts(GdpCommon)
        /\ \A s \in {frame.gdp, frame.consumption, frame.investment,
                     frame.government, frame.net_exports} : Index(s) = frame.index
        /\ \A k \in 1..Len(frame.index) :
               /\ frame.government[k].value =
                     IF HasDate(fetches.government, frame.index[k])
                     THEN ValueAt(fetches.government, frame.index[k]) ELSE F(0)
               /\ frame.net_exports[k].value =
                     IF HasDate(fetches.net_exports, frame.index[k])
                     THEN ValueAt(fetches.net_exports, frame.index[k]) ELSE F(0)

\* the part of C18 the code keeps: whenever the alignment completes, the five
\* series carry the shared timestamps and net exports is 0 where it has no
\* observation
C18_AlignedWhenComplete ==
    (pc = "gdp_render" /\ frame # None) =>
        /\ frame.index = SortedInts(GdpCommon)
        /\ \A s \in {frame.gdp, frame.consumption, frame.investment,
                     frame.government, frame.net_exports} : Index(s) = frame.index
        /\ \A k \in 1..Len(frame.index) :
               frame.net_exports[k].value =
                   IF HasDate(fetches.net_exports, frame.index[k])
                   THEN ValueAt(fetches.net_exports, frame.index[k]) ELSE F(0)

---------------------------------------------------------------------------
(* Last-8-quarters tables of the GDP and Corporate views                    *)

\* a classifier whose thresholds belong to the bucket above them
color_cell_inclusive(val) ==
    IF ~FLess(val, <<3, 2>>) THEN "#0d4f2b"
    ELSE IF ~FLess(val, <<1, 2>>) THEN "#0a3320"
    ELSE IF ~FLess(val, F(0)) THEN "#0c2918"
    ELSE IF ~FLess(val, <<-1, 2>>) THEN "#2d1515"
    ELSE IF ~FLess(val, <<-3, 2>>) THEN "#3d1010"
    ELSE "#4d0a0a"

\* gdp.py:346-353, the background of a cell
color_cell(val) ==
    IF FLess(<<3, 2>>, val) THEN "#0d4f2b"
    ELSE IF FLess(<<1, 2>>, val) THEN "#0a3320"
    ELSE IF FLess(F(0), val) THEN "#0c2918"
    ELSE IF FLess(<<-1, 2>>, val) THEN "#2d1515"
    ELSE IF FLess(<<-3, 2>>, val) THEN "#3d1010"
    ELSE "#4d0a0a"

\* gdp.py:339-341, the cells of one row of the table
heatmap_row(s, last8) == fillna(reindex(s, last8), F(0))

\* corporate.py:523-530, the background of a cell
cc(v) ==
    IF IsNaN(v) THEN "#0d0d1a"
    ELSE IF FLess(F(1500), v) THEN "#0d4f2b"
    ELSE IF FLess(F(600), v) THEN "#0a3320"
    ELSE IF FLess(F(100), v) THEN "#0c2918"
    ELSE IF ~FLess(v, F(0)) THEN "#13132b"
    ELSE "#2d1515"

\* corporate.py:506-507
snap_val(s, idx, scale) ==
    LET r == fillna(reindex(s, idx), F(0))
    IN  [i \in 1..Len(r) |-> Obs(r[i].date, FDiv(r[i].value, F(scale)))]

MaxSnap == 3

GdpCellValues == {F(-2), F(-1), <<-1, 4>>, F(0), <<1, 4>>, F(1), F(2)}
ProfitCellValues == {F(-5), F(0), F(50), F(700), F(2000)}

\* a series with observations at some of the quarters 1..MaxSnap
SnapSeries(V) ==
    {SelectSeq([d \in 1..MaxSnap |-> Obs(d, vs[d])], LAMBDA o : o.value # NaN) :
        vs \in [1..MaxSnap -> V \cup {NaN}]}

snapshotIdle == <<appVars, pct, bandVars, streakVars, trimVars, corporateVars,
                  reconcileVars, ingestVars, extractVars, viewVars>>

InitSnapshot ==
    /\ unit \in {"gdp_table", "corporate_table"} /\ pc = "start"
    /\ unit = "gdp_table" => series \in SnapSeries(GdpCellValues)
    /\ unit = "corporate_table" => series \in SnapSeries(ProfitCellValues)
    /\ pct = None /\ result = None
    /\ ParkBand /\ ParkStreak /\ ParkTrim /\ ParkCorporate /\ ParkReconcile
    /\ ParkIngest /\ ParkExtract /\ ParkView
    /\ ParkApp

\* the last quarters of the common index, which the series need not cover
Last8 == [k \in 1..MaxSnap |-> k]

GdpHeatmapTable ==
    /\ unit = "gdp_table" /\ pc = "start"
    /\ result' = [args |-> Last8,
                  out |-> [k \in 1..MaxSnap |->
                              color_cell(heatmap_row(series, Last8)[k].value)]]
    /\ pc' = "_render_heatmap_table"
    /\ UNCHANGED <<unit, series, snapshotIdle>>

CorporateSnapshotTable ==
    /\ unit = "corporate_table" /\ pc = "start"
    /\ \E scale \in {1, 1000} :
         result' = [args |-> Last8,
                    out |-> [k \in 1..MaxSnap |->
                                cc(snap_val(series, Last8, scale)[k].value)]]
    /\ pc' = "snapshot_table"
    /\ UNCHANGED <<unit, series, snapshotIdle>>

NextSnapshot == GdpHeatmapTable \/ CorporateSnapshotTable

SpecSnapshot == InitSnapshot /\ [][NextSnapshot]_vars

\* C16: a cell of a quarter at which the series has no observation gets a bucket
\* that no numeric value gets
C16_MissingCellDistinct ==
    /\ pc = "_render_heatmap_table" =>
         \A k \in 1..MaxSnap :
             ~HasDate(series, Last8[k]) =>
                 \A v \in GdpCellValues : result.out[k] # color_cell(v)
    /\ pc = "snapshot_table" =>
         \A k \in 1..MaxSnap :
             ~HasDate(series, Last8[k]) =>
                 \A v \in ProfitCellValues : result.out[k] # cc(v)

---------------------------------------------------------------------------
(* CPI contributions of the Inflation view: inflation.py:289-317           *)

\* inflation.py:294  if len(s.dropna()) < 13: continue
ContribMinObs == 13
\* inflation.py:197  cuts = {"2Y": -24, ...}
TwoYearCut == -24

\* inflation.py:60-62  the first two entries of COMPONENTS, in their order
ComponentKeys == <<"cpi_shelter", "cpi_food_home">>
ComponentWeight(key) == IF key = "cpi_shelter" THEN Norm(362, 1000) ELSE Norm(85, 1000)

\* inflation.py:296-301  12 periods in "YoY %" mode, 1 in "MoM %" mode
ModePeriods(mode) == IF mode = "YoY %" THEN YoyPeriods ELSE 1

\* a contribution that leaves the weight out
contribution_unweighted(s, n, weight) == Scale(pct_change(s, n), 100)

\* inflation.py:298,301  contrib = s.pct_change(n) * 100 * weight
contribution(s, n, weight) ==
    LET p == Scale(pct_change(s, n), 100)
    IN  [i \in 1..Len(s) |-> Obs(s[i].date, FMul(p[i].value, weight))]

\* inflation.py:292-295  the components with at least 13 observations
included(cpi) ==
    {ComponentKeys[j] : j \in {i \in 1..Len(ComponentKeys) :
                                 Len(dropna(cpi[ComponentKeys[i]])) >= ContribMinObs}}

\* inflation.py:290-303
contrib_data(cpi, mode) ==
    [k \in included(cpi) |-> contribution(cpi[k], ModePeriods(mode), ComponentWeight(k))]

\* pd.DataFrame(dict of series): one row per label of the union of the indexes,
\* ascending, NaN where a column has no observation
DataFrame(data) ==
    LET idx == SortedInts(UNION {Dates(data[k]) : k \in DOMAIN data})
    IN  [i \in 1..Len(idx) |->
            Obs(idx[i], [k \in DOMAIN data |->
                            IF HasDate(data[k], idx[i]) THEN ValueAt(data[k], idx[i]) ELSE NaN])]

\* DataFrame.dropna(): the rows without any NaN
frame_dropna(rows) ==
    LET Complete(r) == \A k \in DOMAIN r.value : ~IsNaN(r.value[k])
    IN  SelectSeq(rows, Complete)

\* inflation.py:214  def trim(s): return s.iloc[cut:] if cut != 0 else s
trim(s, c) == IF c # 0 THEN iloc_tail(s, c) ELSE s

\* DataFrame.reindex(idx) for labels the frame holds
frame_reindex(rows, idx) ==
    [i \in 1..Len(idx) |-> rows[CHOOSE j \in 1..Len(rows) : rows[j].date = idx[i]]]

\* inflation.py:289-317  the contributions frame and the total line behind the chart
contributions(f) ==
    LET contrib_df == trim(frame_dropna(DataFrame(contrib_data(f.cpi, f.mode))), f.cut)
        s          == f.cpi_all
        total_s    == IF f.mode = "YoY %" THEN trim(yoy(s), f.cut)
                      ELSE trim(Scale(pct_change(s, 1), 100), f.cut)
        common_idx == index_intersection(Index(contrib_df), Index(total_s))
    IN  [contrib_df |-> frame_reindex(contrib_df, common_idx),
         total      |-> reindex(total_s, common_idx)]

MaxMonths == 38
MonthCounts == {12, 14, 27, MaxMonths}

\* an index level series of n consecutive months
IndexLevels(n, a, b) == [i \in 1..n |-> Obs(i, F(1 + ((i * a + b) % 5)))]

ComponentSeries == {IndexLevels(n, a, b) : n \in MonthCounts, a \in {1, 2}, b \in {0, 1}}
TotalSeries == {IndexLevels(n, a, b) : n \in {14, MaxMonths}, a \in {1, 2}, b \in {0, 1}}

ContribFetches ==
    {[cpi |-> c, cpi_all |-> t, mode |-> m, cut |-> k] :
        c \in [{ComponentKeys[i] : i \in 1..Len(ComponentKeys)} -> ComponentSeries],
        t \in TotalSeries, m \in {"YoY %", "MoM %"}, k \in {0, TwoYearCut}}

contribIdle == <<appVars, pctVars, bandVars, streakVars, trimVars, corporateVars,
                 lhs, rhs, ingestVars, extractVars, messages, rendered, raised>>

InitContrib ==
    /\ unit = "inflation_contributions" /\ pc = "start"
    /\ fetches \in ContribFetches
    /\ frame = None
    /\ messages = None /\ rendered = None /\ raised = None
    /\ lhs = None /\ rhs = None
    /\ ParkPct /\ ParkBand /\ ParkStreak /\ ParkTrim /\ ParkCorporate
    /\ ParkIngest /\ ParkExtract
    /\ ParkApp

InflationContributions ==
    /\ unit = "inflation_contributions" /\ pc = "start"
    /\ frame' = contributions(fetches)
    /\ pc' = "contributions"
    /\ UNCHANGED <<unit, fetches, contribIdle>>

NextContrib == InflationContributions

SpecContrib == InitContrib /\ [][NextContrib]_vars

\* weight_c * percent_change(c, N)[d], from component c's own series alone
OwnContribution(k, d) ==
    LET s == fetches.cpi[k]
        n == ModePeriods(fetches.mode)
    IN  IF HasDate(s, d) /\ HasDate(s, d - n)
        THEN FMul(ComponentWeight(k),
                  FMul(F(100), FSub(FDiv(ValueAt(s, d), ValueAt(s, d - n)), F(1))))
        ELSE NaN

\* the sum of the contributions of row r
RowSum(r) == FSum([i \in 1..Len(ComponentKeys) |->
                     IF ComponentKeys[i] \in DOMAIN r.value THEN r.value[ComponentKeys[i]]
                     ELSE F(0)])

\* C17: every cell of the contributions frame is the weight of its component times
\* the component's own percent change over N periods (12 in YoY mode, 1 in MoM
\* mode) at that period: no other component's series and no total enters it, and
\* nothing rescales the row to the total
C17_ContributionIsWeightTimesChange ==
    pc = "contributions" =>
        \A i \in 1..Len(frame.contrib_df) :
            LET r == frame.contrib_df[i]
            IN  /\ DOMAIN r.value = included(fetches.cpi)
                /\ \A k \in DOMAIN r.value : r.value[k] = OwnContribution(k, r.date)

\* both components are included, their series differ, the range selection has cut
\* rows away, and a row's contributions do not add up to the total of that period
C17_Witness ==
    /\ pc = "contributions"
    /\ included(fetches.cpi) = {"cpi_shelter", "cpi_food_home"}
    /\ fetches.cpi["cpi_shelter"] # fetches.cpi["cpi_food_home"]
    /\ fetches.cut # 0
    /\ Len(frame.contrib_df) = -TwoYearCut
    /\ \E i \in 1..Len(frame.contrib_df) :
          /\ ~IsNaN(frame.total[i].value)
          /\ RowSum(frame.contrib_df[i]) # frame.total[i].value

---------------------------------------------------------------------------
(* Delta columns of the snapshot tables: energy.py:1087-1107,              *)
(* rates.py:963-978, leading.py:552-571                                    *)

\* energy.py:1094  ("1W", 1), ("4W", 4), ("13W", 13), ("52W", 52)
EnergyLookbacks == <<1, 4, 13, 52>>
\* rates.py:971  ("1W", 5), ("1M", 22), ("3M", 63), ("1Y", 252)
RatesLookbacks == <<5, 22, 63, 252>>
\* leading.py:553  ("3M", 63), ("6M", 126), ("1Y", 252)
LeadingLookbacks == <<63, 126, 252>>

\* energy.py:1097-1101  1 for a weekly series, 5 for a daily one; the average gap
\* is the span in days over the number of observations
energy_mult(d) ==
    IF Len(d) > 10
    THEN IF d[Len(d)].date - d[1].date > 4 * Len(d) THEN 1 ELSE 5
    ELSE 1

\* s.iloc[-k] of a series with at least k observations
iloc_neg(d, k) == d[Len(d) - k + 1].value

\* energy.py:1103-1106, rates.py:972-976, leading.py:567-570
\*   if len(s) > n: s.iloc[-1] - s.iloc[-n]   else: nan
snapshot_delta(d, n) ==
    IF Len(d) > n THEN FSub(iloc_neg(d, 1), iloc_neg(d, n)) ELSE NaN

\* energy.py:1087-1107  the delta columns of one row
energy_deltas(s) ==
    LET d == dropna(s)
    IN  [j \in 1..Len(EnergyLookbacks) |->
            [n |-> EnergyLookbacks[j] * energy_mult(d),
             value |-> snapshot_delta(d, EnergyLookbacks[j] * energy_mult(d))]]

\* rates.py:963-978  the delta columns of one row; OAS rows are shown in bp
rates_deltas(s, kind) ==
    LET d == dropna(s)
    IN  [j \in 1..Len(RatesLookbacks) |->
            [n |-> RatesLookbacks[j],
             value |-> IF kind = "oas" /\ Len(d) > RatesLookbacks[j]
                       THEN FMul(snapshot_delta(d, RatesLookbacks[j]), F(100))
                       ELSE snapshot_delta(d, RatesLookbacks[j])]]

\* leading.py:552-571  the delta columns of one row
leading_deltas(s) ==
    LET d == dropna(s)
    IN  [j \in 1..Len(LeadingLookbacks) |->
            [n |-> LeadingLookbacks[j],
             value |-> snapshot_delta(d, LeadingLookbacks[j])]]

MaxDeltaLen == 64

\* n observations `gap' days apart, the last one missing when hole is set
DeltaLevels(n, gap, a, hole) ==
    [i \in 1..n |-> Obs(i * gap, IF hole /\ i = n THEN NaN ELSE F((i * a) % 5))]

DeltaSeries ==
    {DeltaLevels(n, gap, a, hole) :
        n \in 0..MaxDeltaLen, gap \in {1, 7}, a \in {1, 2}, hole \in BOOLEAN}

deltaIdle == <<appVars, pct, bandVars, streakVars, trimVars, corporateVars,
               reconcileVars, ingestVars, extractVars, viewVars>>

InitDelta ==
    /\ unit \in {"energy_snapshot", "rates_snapshot", "leading_snapshot"}
    /\ pc = "start"
    /\ series \in DeltaSeries
    /\ pct = None /\ result = None
    /\ ParkBand /\ ParkStreak /\ ParkTrim /\ ParkCorporate /\ ParkReconcile
    /\ ParkIngest /\ ParkExtract /\ ParkView
    /\ ParkApp

EnergySnapshot ==
    /\ unit = "energy_snapshot" /\ pc = "start"
    /\ Len(dropna(series)) > 0
    /\ result' = [args |-> "level", out |-> energy_deltas(series)]
    /\ pc' = "energy_deltas"
    /\ UNCHANGED <<unit, series, deltaIdle>>

RatesSnapshot ==
    /\ unit = "rates_snapshot" /\ pc = "start"
    /\ \E kind \in {"rate", "oas"} :
         result' = [args |-> kind, out |-> rates_deltas(series, kind)]
    /\ pc' = "rates_deltas"
    /\ UNCHANGED <<unit, series, deltaIdle>>

LeadingSnapshot ==
    /\ unit = "leading_snapshot" /\ pc = "start"
    /\ result' = [args |-> "level", out |-> leading_deltas(series)]
    /\ pc' = "leading_deltas"
    /\ UNCHANGED <<unit, series, deltaIdle>>

NextDelta == EnergySnapshot \/ RatesSnapshot \/ LeadingSnapshot

SpecDelta == InitDelta /\ [][NextDelta]_vars

\* the latest observation minus the one n positions before it, NaN when there are
\* fewer than n + 1 observations
DeltaOver(d, n) ==
    IF Len(d) >= n + 1 THEN FSub(d[Len(d)].value, d[Len(d) - n].value) ELSE NaN

DeltaDone == pc \in {"energy_deltas", "rates_deltas", "leading_deltas"}

\* C19: in the Energy and Rates snapshot tables every delta column with a look-back
\* of n observations is the latest observation minus the observation n positions
\* before it, and NaN when fewer than n + 1 observations exist; a look-back of 1
\* is latest minus previous
C19_DeltaOverLookback ==
    (pc \in {"energy_deltas", "rates_deltas"} /\ result.args # "oas") =>
        \A j \in 1..Len(result.out) :
            result.out[j].value = DeltaOver(dropna(series), result.out[j].n)

\* the delta columns are NaN exactly when fewer than n + 1 observations exist
C19_NaNWhenShort ==
    DeltaDone =>
        \A j \in 1..Len(result.out) :
            IsNaN(result.out[j].value) <=> Len(dropna(series)) < result.out[j].n + 1

\* what the code computes: the latest observation minus the one n - 1 positions
\* before it
C19_DeltaOverOneFewer ==
    (DeltaDone /\ result.args # "oas") =>
        \A j \in 1..Len(result.out) :
            result.out[j].value = DeltaOver(dropna(series), result.out[j].n - 1)
                \/ (IsNaN(result.out[j].value)
                      /\ Len(dropna(series)) = result.out[j].n)

---------------------------------------------------------------------------
(* The plotted YoY series of the Corporate view: corporate.py:246-256       *)

\* corporate.py:197  cut = {"5Y": -20, ..., "All": 0}[rng]
FiveYearCut == -20

\* corporate.py:255-256  yoy_full = total.pct_change(4) * 100; yoy_t = _tr(yoy_full)
yoy_t(s, idx, c) == tr(yoy_full(s), idx, c)

MaxYoyLen == 26

\* n consecutive quarters of total profits
QuarterlyProfits(n, a) == [i \in 1..n |-> Obs(i, F(10 + ((i * a) % 5)))]

\* the quarters 1..n without the quarter `hole' (0: none is left out)
CommonWithout(n, hole) == SortedInts((1..n) \ {hole})

yoyIdle == <<appVars, pct, result, undist_s, ret_rate, bandVars, streakVars, reconcileVars,
             ingestVars, extractVars, viewVars>>

InitYoy ==
    /\ unit = "corporate_yoy" /\ pc = "start"
    /\ \E n \in MinPeriods..MaxYoyLen, a \in {1, 2}, hole \in {0, 1, 5} :
          /\ series = QuarterlyProfits(n, a)
          /\ common = CommonWithout(n, hole)
          /\ Len(common) >= MinPeriods
    /\ cut \in {0, FiveYearCut}
    /\ trimmed = None
    /\ pct = None /\ result = None /\ total = None /\ undist_s = None /\ ret_rate = None
    /\ ParkBand /\ ParkStreak /\ ParkReconcile /\ ParkIngest /\ ParkExtract /\ ParkView
    /\ ParkApp

CorporateYoyT ==
    /\ unit = "corporate_yoy" /\ pc = "start"
    /\ total' = series
    /\ trimmed' = yoy_t(series, common, cut)
    /\ pc' = "yoy_t"
    /\ UNCHANGED <<unit, series, cut, common, yoyIdle>>

NextYoy == CorporateYoyT

SpecYoy == InitYoy /\ [][NextYoy]_vars

\* the first QuarterPeriods quarters of total profits: those without an
\* observation four quarters earlier
FirstQuarters == {total[i].date : i \in 1..Min(QuarterPeriods, Len(total))}

\* C20: the plotted YoY series is undefined, never a number such as 0, at the
\* first 4 quarters of total profits, where no observation 4 quarters earlier
\* exists, for every range selection including 'All'
C20_YoyUndefinedAtStart ==
    pc = "yoy_t" =>
        \A i \in 1..Len(trimmed) :
            trimmed[i].date \in FirstQuarters => IsNaN(trimmed[i].value)

\* what the code plots: 0 at every plotted quarter among the first 4
C20_YoyZeroAtStart ==
    pc = "yoy_t" =>
        \A i \in 1..Len(trimmed) :
            trimmed[i].date \in FirstQuarters => trimmed[i].value = F(0)

\* a plotted quarter after the first 4 carries the percent change over 4 quarters
C20_YoyDefinedLater ==
    pc = "yoy_t" =>
        \A i \in 1..Len(trimmed) :
            trimmed[i].date \notin FirstQuarters =>
                IsPercentChange(trimmed[i].value,
                                ValueAt(total, trimmed[i].date)[1],
                                ValueAt(total, trimmed[i].date - QuarterPeriods)[1])

---------------------------------------------------------------------------
(* The Labor view's loads and sections: labor.py:134-162, 226-232, 429-431  *)

\* labor.py:70-76  the names of FRED_SERIES, in their order
FredNames == <<"jolts_openings", "jolts_hires", "jolts_quits", "jolts_layoffs",
               "jolts_separations">>

RECURSIVE fred_rows(_)
\* labor.py:139-160  the rows collected over the requests: a failed request and an
\* observation that does not parse add none
fred_rows(reqs) ==
    IF reqs = <<>> THEN 0
    ELSE (IF Head(reqs).ok THEN Head(reqs).rows ELSE 0) + fred_rows(Tail(reqs))

\* labor.py:134-162  pd.DataFrame(rows).sort_values(["series_id", "date"]): a frame
\* built from no rows has no column to sort by, and sort_values raises KeyError
load_fred_data(reqs) ==
    IF fred_rows(reqs) = 0 THEN Failed("'series_id'") ELSE Ok(fred_rows(reqs))

\* labor.py:272-424  the sections drawn from the BLS frame
BlsSections == {"kpi", "payrolls", "sector_breakdown", "unemployment", "wages"}
\* labor.py:433-604  the sections drawn after the JOLTS guard
JoltsSections == {"jolts_deep_dive", "sector_heatmap"}

\* labor.py:199-604.  A BLS load is summarised by its outcome, a FRED load by the
\* outcome of each of its requests
labor_render(f) ==
    LET fred == load_fred_data(f.fred)
    IN  IF ~f.bls.ok
        THEN [messages |-> <<Message("error", "Data fetch error", f.bls.error)>>,
              rendered |-> {}]
        ELSE IF ~fred.ok
        THEN [messages |-> <<Message("error", "Data fetch error", fred.error)>>,
              rendered |-> {}]
        ELSE IF fred.rows = 0
        THEN [messages |-> <<Message("warning", "JOLTS", "FRED data unavailable")>>,
              rendered |-> BlsSections]
        ELSE [messages |-> <<>>, rendered |-> BlsSections \cup JoltsSections]

MaxFredObs == 2

BlsOutcomes == {Ok(MaxFredObs)} \cup {Failed(e) : e \in ErrorTexts}
FredOutcomes == {Ok(n) : n \in 0..MaxFredObs} \cup {Failed("timeout")}

laborViewIdle == <<appVars, pctVars, bandVars, streakVars, trimVars, corporateVars,
                   reconcileVars, ingestVars, extractVars>>

InitLaborView ==
    /\ unit = "labor_view" /\ pc = "start"
    /\ fetches \in [bls : BlsOutcomes, fred : [1..Len(FredNames) -> FredOutcomes]]
    /\ messages = <<>> /\ rendered = {} /\ raised = "none"
    /\ ParkPct /\ ParkBand /\ ParkStreak /\ ParkTrim /\ ParkCorporate
    /\ ParkReconcile /\ ParkIngest /\ ParkExtract
    /\ ParkApp

\* every exception of the two loads is caught (labor.py:227-232)
LaborRender ==
    /\ unit = "labor_view" /\ pc = "start"
    /\ messages' = labor_render(fetches).messages
    /\ rendered' = labor_render(fetches).rendered
    /\ raised' = "none"
    /\ pc' = "labor_render"
    /\ UNCHANGED <<unit, fetches, laborViewIdle>>

NextLaborView == LaborRender

SpecLaborView == InitLaborView /\ [][NextLaborView]_vars

AllFredFailed == \A i \in 1..Len(FredNames) : ~fetches.fred[i].ok

\* C21: when every FRED request fails and the BLS request succeeds, the Labor view
\* draws the BLS sections and then shows the 'FRED data unavailable' warning; no
\* fetch error replaces the view
C21_FredFailureDegrades ==
    (pc = "labor_render" /\ fetches.bls.ok /\ AllFredFailed) =>
        /\ BlsSections \subseteq rendered
        /\ Shown("warning", "JOLTS", {"FRED data unavailable"}) = 1
        /\ Shown("error", "Data fetch error", ErrorTexts \cup {"'series_id'"}) = 0

\* what the code does whenever the FRED load collects no row: the fetch error
\* stands alone and the warning of labor.py:430 is never shown
C21_NoRowsIsFetchError ==
    (pc = "labor_render" /\ fetches.bls.ok) =>
        /\ fred_rows(fetches.fred) = 0 =>
              (rendered = {} /\ Shown("error", "Data fetch error", {"'series_id'"}) = 1)
        /\ Shown("warning", "JOLTS", {"FRED data unavailable"}) = 0
        /\ fred_rows(fetches.fred) > 0 => rendered = BlsSections \cup JoltsSections

---------------------------------------------------------------------------
(* Week keys of the seasonal band: energy.py:195-207, 339-343              *)

\* the week-of-year axis of the seasonal chart (energy.py:342  range [1, 52])
ChartWeeks == 1..52

BandDone == unit = "band" /\ pc = "load_seasonal_bands"

\* C22: every week key of the band returned by load_seasonal_bands lies in 1..52,
\* and no week key appears in two band rows
C22_WeekKeys ==
    BandDone =>
        /\ \A k \in 1..Len(band) : band[k].week \in ChartWeeks
        /\ \A j, k \in 1..Len(band) : band[j].week = band[k].week => j = k

\* what the code guarantees: the keys are ISO weeks, 1..53, one row each
C22_IsoWeekKeys ==
    BandDone =>
        /\ \A k \in 1..Len(band) : band[k].week \in 1..53
        /\ \A j, k \in 1..Len(band) : band[j].week = band[k].week => j = k

\* a band row keyed by ISO week 53
C22_Week53 == BandDone /\ \E k \in 1..Len(band) : band[k].week = 53

---------------------------------------------------------------------------
(* The buckets of the GDP heatmap classifier: gdp.py:345-353               *)

MaxSteps == 8

\* the quarters of a point from -MaxSteps/4 to MaxSteps/4, and the infinities
ClassifierValues == {Norm(k, 4) : k \in (-MaxSteps)..MaxSteps} \cup {PosInf, NegInf}

classifyIdle == <<appVars, series, pct, frame, bandVars, streakVars, trimVars, corporateVars,
                  ingestVars, extractVars, viewVars>>

InitClassify ==
    /\ unit = "gdp_classifier" /\ pc = "start"
    /\ lhs \in ClassifierValues /\ rhs \in ClassifierValues
    /\ result = None
    /\ series = None /\ pct = None /\ frame = None
    /\ ParkBand /\ ParkStreak /\ ParkTrim /\ ParkCorporate
    /\ ParkIngest /\ ParkExtract /\ ParkView
    /\ ParkApp

GdpColorCell ==
    /\ unit = "gdp_classifier" /\ pc = "start"
    /\ result' = [args |-> <<lhs, rhs>>, out |-> <<color_cell(lhs), color_cell(rhs)>>]
    /\ pc' = "color_cell"
    /\ UNCHANGED <<unit, lhs, rhs, classifyIdle>>

NextClassify == GdpColorCell

SpecClassify == InitClassify /\ [][NextClassify]_vars

\* the six backgrounds, from the most negative bucket to the most positive
Buckets == <<"#4d0a0a", "#3d1010", "#2d1515", "#0c2918", "#0a3320", "#0d4f2b">>

BucketRank(bg) == CHOOSE k \in 1..Len(Buckets) : Buckets[k] = bg

\* a <= b
FLeq(a, b) == a = b \/ FLess(a, b)

\* the bucket of v by its interval: (lower, upper], thresholds in the lower bucket
IntervalRank(v) ==
    CHOOSE k \in 1..6 :
        \/ k = 1 /\ FLeq(v, <<-3, 2>>)
        \/ k = 2 /\ FLess(<<-3, 2>>, v) /\ FLeq(v, <<-1, 2>>)
        \/ k = 3 /\ FLess(<<-1, 2>>, v) /\ FLeq(v, F(0))
        \/ k = 4 /\ FLess(F(0), v) /\ FLeq(v, <<1, 2>>)
        \/ k = 5 /\ FLess(<<1, 2>>, v) /\ FLeq(v, <<3, 2>>)
        \/ k = 6 /\ FLess(<<3, 2>>, v)

\* C23: color_cell maps every numeric value to exactly one of the six buckets
\* delimited by 1.5, 0.5, 0, -0.5, -1.5, a threshold itself falling in the bucket
\* below it, and a larger value never gets a lower bucket than a smaller one
C23_SixBuckets ==
    pc = "color_cell" =>
        /\ \A j \in 1..2 :
              /\ \E k \in 1..Len(Buckets) : result.out[j] = Buckets[k]
              /\ BucketRank(result.out[j]) = IntervalRank(result.args[j])
        /\ FLeq(lhs, rhs) => BucketRank(result.out[1]) <= BucketRank(result.out[2])

\* a threshold and a value just above it are classified: 0.5 falls in the bucket
\* of (0, 0.5], 0.75 in the bucket above
C23_Witness ==
    /\ pc = "color_cell"
    /\ lhs = <<1, 2>> /\ rhs = <<3, 4>>
    /\ result.out = <<"#0c2918", "#0a3320">>

---------------------------------------------------------------------------
(* Year-over-year change of a monthly series with missing months:          *)
(* inflation.py:152, labor.py:176-177                                      *)

MaxGapMonths == 15

\* the months 1..n without the month `hole' (0: none is missing); a date is the
\* count of calendar months
MonthlyWithGap(n, hole, a) ==
    LET ms == SortedInts((1..n) \ {hole})
    IN  [i \in 1..Len(ms) |-> Obs(ms[i], F(1 + ((ms[i] * a) % 5)))]

gapIdle == <<appVars, result, bandVars, streakVars, trimVars, corporateVars, reconcileVars,
             ingestVars, extractVars, viewVars>>

InitGap ==
    /\ unit = "pct_gap" /\ pc = "start"
    /\ \E n \in (YoyPeriods + 1)..MaxGapMonths, hole \in 0..MaxGapMonths, a \in {1, 2} :
          hole <= n /\ series = MonthlyWithGap(n, hole, a)
    /\ pct = None /\ result = None
    /\ ParkBand /\ ParkStreak /\ ParkTrim /\ ParkCorporate /\ ParkReconcile
    /\ ParkIngest /\ ParkExtract /\ ParkView
    /\ ParkApp

InflationYoyGap ==
    /\ unit = "pct_gap" /\ pc = "start"
    /\ pct' = yoy(series)
    /\ pc' = "yoy"
    /\ UNCHANGED <<unit, series, gapIdle>>

LaborYoyPctGap ==
    /\ unit = "pct_gap" /\ pc = "start"
    /\ pct' = yoy_pct(series)
    /\ pc' = "yoy_pct"
    /\ UNCHANGED <<unit, series, gapIdle>>

NextGap == InflationYoyGap \/ LaborYoyPctGap

SpecGap == InitGap /\ [][NextGap]_vars

GapDone == unit = "pct_gap" /\ pc \in {"yoy", "yoy_pct"}

\* C24: the YoY value at month t is the percent change against the observation
\* dated exactly 12 calendar months before t, and undefined when the series has
\* no observation at that month, whatever months are missing
C24_YoyByCalendar ==
    GapDone =>
        \A t \in 1..Len(pct) :
            LET d == pct[t].date
            IN  IF HasDate(series, d - YoyPeriods)
                THEN IsPercentChange(pct[t].value, ValueAt(series, d)[1],
                                     ValueAt(series, d - YoyPeriods)[1])
                ELSE IsNaN(pct[t].value)

\* what the code computes: the percent change against the observation 12 rows
\* earlier, whatever its date
C24_YoyByPosition ==
    GapDone =>
        /\ Len(pct) = Len(series)
        /\ \A t \in 1..Len(series) :
              /\ pct[t].date = series[t].date
              /\ t > YoyPeriods => IsPercentChange(pct[t].value, series[t].value[1],
                                                   series[t - YoyPeriods].value[1])
              /\ t <= YoyPeriods => IsNaN(pct[t].value)

---------------------------------------------------------------------------
(* Empty and non-numeric values at BEA ingestion: utils/bea.py:46-53,      *)
(* corporate.py:111-115                                                    *)

BeaDone == pc \in {"fetch_nipa", "corporate_fetch_nipa"} /\ tidy.ok

\* the raw observation o carries the number v
CarriesNumber(o, v) ==
    /\ IsDigits(remove_commas(o.DataValue))
    /\ v = F(DigitsValue(remove_commas(o.DataValue)))

\* C25: at BEA ingestion a raw observation whose value is empty or not numeric
\* yields no numeric entry: every value of the resulting table is the number its
\* raw observation carries, and none is a 0 put in place of a missing value
C25_GapsStayGaps ==
    BeaDone =>
        \A k \in 1..Len(tidy.rows) :
            \E i \in 1..Len(payload) :
                /\ payload[i].TimePeriod = tidy.rows[k].TimePeriod
                /\ payload[i].SeriesCode = tidy.rows[k].SeriesCode
                /\ CarriesNumber(payload[i], tidy.rows[k].DataValue)

\* what the code does: a quarterly observation with an empty value is kept with
\* the value 0
C25_EmptyBecomesZero ==
    BeaDone =>
        \A i \in 1..Len(payload) :
            (payload[i].DataValue = <<>> /\ IsQuarterly(payload[i].TimePeriod)) =>
                \E k \in 1..Len(tidy.rows) :
                    /\ tidy.rows[k].TimePeriod = payload[i].TimePeriod
                    /\ tidy.rows[k].DataValue = F(0)

---------------------------------------------------------------------------
(* The O&D signal of the Energy view: energy.py:421-437                    *)

\* energy.py:425  draws = sum(1 for i in range(1, 5) if _chg(crude_stocks, i) < 0)
od_draws(s) == Cardinality({i \in 1..4 : FLess(energy_chg(s, i), F(0))})

\* energy.py:426-437
od_signal(draws) ==
    IF draws >= 3 THEN "DRAWS" ELSE IF draws >= 2 THEN "MIXTO" ELSE "BUILDS"

MaxStocks == 6
StockLevels == {1, 2, 3}

odIdle == <<appVars, pct, bandVars, streakVars, trimVars, corporateVars, reconcileVars,
            ingestVars, extractVars, viewVars>>

InitOd ==
    /\ unit = "od_signal" /\ pc = "start"
    /\ series \in {Consecutive(v) : v \in UNION {[1..k -> StockLevels] : k \in 5..MaxStocks}}
    /\ pct = None /\ result = None
    /\ ParkBand /\ ParkStreak /\ ParkTrim /\ ParkCorporate /\ ParkReconcile
    /\ ParkIngest /\ ParkExtract /\ ParkView
    /\ ParkApp

EnergyOdSignal ==
    /\ unit = "od_signal" /\ pc = "start"
    /\ result' = [args |-> od_draws(series), out |-> od_signal(od_draws(series))]
    /\ pc' = "od_signal"
    /\ UNCHANGED <<unit, series, odIdle>>

NextOd == EnergyOdSignal

SpecOd == InitOd /\ [][NextOd]_vars

\* the number of the last 4 week-over-week changes of s that are negative
WeeklyDraws(s) ==
    Cardinality({i \in (Len(s) - 3)..Len(s) : FLess(s[i].value, s[i - 1].value)})

\* C26: the number of draws shown is the number of the last 4 week-over-week
\* changes of crude stocks that are negative (series of at least 5 observations),
\* and the signal is DRAWS for 3 or more, MIXTO for 2, BUILDS otherwise
C26_DrawsCountWeeklyChanges ==
    pc = "od_signal" =>
        /\ result.args = WeeklyDraws(series)
        /\ result.out = (IF result.args >= 3 THEN "DRAWS"
                         ELSE IF result.args = 2 THEN "MIXTO" ELSE "BUILDS")

\* what the code counts: the look-backs i = 1..4 at which the latest level is below
\* the level i weeks earlier; the signal follows the count as claimed
C26_DrawsCountLookbacks ==
    pc = "od_signal" =>
        /\ result.args = Cardinality({i \in 1..4 :
                FLess(series[Len(series)].value, series[Len(series) - i].value)})
        /\ result.out = (IF result.args >= 3 THEN "DRAWS"
                         ELSE IF result.args = 2 THEN "MIXTO" ELSE "BUILDS")

---------------------------------------------------------------------------
(* Moving averages of the Labor and Energy views: labor.py:249-303,        *)
(* energy.py:796-800                                                       *)

\* Series.rolling(w).mean(): the mean of the w values ending at each row, NaN
\* while fewer than w rows exist or when a value of the window is NaN
rolling_mean(s, w) ==
    [i \in 1..Len(s) |->
        Obs(s[i].date,
            IF i >= w /\ \A j \in (i - w + 1)..i : ~IsNaN(s[j].value)
            THEN FMean([j \in 1..w |-> s[i - w + j].value])
            ELSE NaN)]

\* labor.py:243, 251, 303  ma3 = trim(mom_change(pay_tot)).rolling(3).mean()
labor_ma3(pay_tot, c) == rolling_mean(labor_trim(mom_change(pay_tot), c), 3)

\* energy.py:798-800  chg_ma4 = _trim(crude_s.diff(), cut).rolling(4).mean()
energy_chg_ma4(s, c) == rolling_mean(energy_trim(diff(s), c), 4)

MaxPayLen == 27
MaxCrudeLen == 8

\* n consecutive periods of levels
MaLevels(n, a) == [i \in 1..n |-> Obs(i, F((i * i * a) % 7))]

maIdle == <<appVars, pct, common, trimmed, bandVars, streakVars, corporateVars, reconcileVars,
            ingestVars, extractVars, viewVars>>

InitMa ==
    /\ pc = "start"
    /\ \/ /\ unit = "labor_ma"
          /\ \E n \in 1..MaxPayLen, a \in {1, 2} : series = MaLevels(n, a)
          /\ cut \in {0, TwoYearCut}
       \/ /\ unit = "energy_ma"
          /\ \E n \in 1..MaxCrudeLen, a \in {1, 2} : series = MaLevels(n, a)
          /\ cut \in {<<>>} \cup {<<d>> : d \in 1..MaxCrudeLen}
    /\ result = None
    /\ pct = None /\ common = None /\ trimmed = None
    /\ ParkBand /\ ParkStreak /\ ParkCorporate /\ ParkReconcile
    /\ ParkIngest /\ ParkExtract /\ ParkView
    /\ ParkApp

LaborMa3 ==
    /\ unit = "labor_ma" /\ pc = "start"
    /\ result' = [args |-> 3, out |-> labor_ma3(series, cut)]
    /\ pc' = "ma3"
    /\ UNCHANGED <<unit, series, cut, maIdle>>

\* energy.py:797  if len(crude_s):
EnergyChgMa4 ==
    /\ unit = "energy_ma" /\ pc = "start"
    /\ Len(series) > 0
    /\ result' = [args |-> 4, out |-> energy_chg_ma4(series, cut)]
    /\ pc' = "chg_ma4"
    /\ UNCHANGED <<unit, series, cut, maIdle>>

NextMa == LaborMa3 \/ EnergyChgMa4

SpecMa == InitMa /\ [][NextMa]_vars

\* the mean of the w changes of the full series ending at date d, NaN when fewer
\* than w changes exist up to d
FullSeriesMean(s, d, w) ==
    LET ch == SelectSeq(diff(s), LAMBDA o : ~IsNaN(o.value) /\ o.date <= d)
        n  == Len(ch)
    IN  IF n >= w THEN FMean([j \in 1..w |-> ch[n - w + j].value]) ELSE NaN

\* C27: the moving average shown at t is the mean of the W changes of the full
\* series ending at t, the same under every range selection, and undefined only
\* when fewer than W changes of the full series exist up to t
C27_MovingAverageOfFullSeries ==
    pc \in {"ma3", "chg_ma4"} =>
        \A i \in 1..Len(result.out) :
            result.out[i].value = FullSeriesMean(series, result.out[i].date, result.args)

\* what the code computes: the mean of the W changes of the trimmed window ending
\* at t, undefined at the first W - 1 rows of every window
C27_MovingAverageOfWindow ==
    pc \in {"ma3", "chg_ma4"} =>
        LET win == IF pc = "ma3" THEN labor_trim(diff(series), cut)
                   ELSE energy_trim(diff(series), cut)
        IN  /\ Len(result.out) = Len(win)
            /\ \A i \in 1..Len(win) :
                  /\ i < result.args => IsNaN(result.out[i].value)
                  /\ (i >= result.args /\ win[i - result.args + 1].date > 1) =>
                        result.out[i].value
                            = FullSeriesMean(series, win[i].date, result.args)

---------------------------------------------------------------------------
(* Timestamps of the CPI contributions chart: inflation.py:289-317, 214    *)

\* the percent change of the CPI total over N periods at month d, from the series
TotalChange(d) ==
    LET s == fetches.cpi_all
        n == ModePeriods(fetches.mode)
    IN  IF HasDate(s, d) /\ HasDate(s, d - n)
        THEN FMul(F(100), FSub(FDiv(ValueAt(s, d), ValueAt(s, d - n)), F(1)))
        ELSE NaN

\* the months at which every included component's contribution and the CPI total
\* are all defined
AllDefined ==
    {d \in 1..MaxMonths :
        /\ \A k \in included(fetches.cpi) : ~IsNaN(OwnContribution(k, d))
        /\ ~IsNaN(TotalChange(d))}

\* the last rows of idx that a range cut keeps
LastOf(idx, c) == IF c = 0 THEN idx ELSE iloc_tail(idx, c)

ContribDone == pc = "contributions" /\ included(fetches.cpi) # {}

\* C28: with range cut -k the contribution table and the total line carry the same
\* timestamps, the last min(k, m) of the m timestamps at which every included
\* component's contribution and the CPI total are all defined
C28_SharedTimestamps ==
    ContribDone =>
        /\ Index(frame.contrib_df) = Index(frame.total)
        /\ Index(frame.contrib_df) = LastOf(SortedInts(AllDefined), fetches.cut)

\* what the code guarantees: the table and the total line carry the same
\* timestamps, all among the last k rows of the table, and the table is defined
\* at each of them
C28_SameIndex ==
    ContribDone =>
        /\ Index(frame.contrib_df) = Index(frame.total)
        /\ \A i \in 1..Len(frame.contrib_df) :
              \A k \in included(fetches.cpi) :
                  ~IsNaN(OwnContribution(k, frame.contrib_df[i].date))

---------------------------------------------------------------------------
(* The fallback chain of corporate._load_undist: corporate.py:158-168      *)

MaxUndistRows == 3

\* what a request of table T62100D at one frequency can come to: an exception of
\* _fetch_nipa (corporate.py:98-109) or a table
UndistRequest(freq) ==
    {[ok |-> FALSE, error |-> e, frequency |-> freq] :
        e \in ErrorTexts \cup {"BEA [T62100D] no Data"}}
    \cup {[ok |-> TRUE, rows |-> n, overlap |-> o, frequency |-> freq] :
            n \in 1..MaxUndistRows, o \in {0, 1}}

\* pd.DataFrame()
EmptyFrame == [ok |-> TRUE, rows |-> 0, overlap |-> 0, frequency |-> "none"]

\* a chain that goes on to the annual request whatever the quarterly one returned
undist_always_annual(q) == "quarterly_failed"

\* corporate.py:162-164  return on success, the except branch on failure
undist_after_quarterly(q) == IF q.ok THEN "done" ELSE "quarterly_failed"

undistIdle == <<appVars, bandVars, streakVars, trimVars, corporateVars,
                reconcileVars, ingestVars, extractVars, rendered>>

\* messages is the list of the requests issued so far, result the returned pair
InitUndist ==
    /\ unit = "load_undist" /\ pc = "start"
    /\ fetches \in [q : UndistRequest("Q"), a : UndistRequest("A")]
    /\ messages = <<>> /\ raised = "none"
    /\ result = None /\ rendered = None
    /\ series = None /\ pct = None
    /\ ParkBand /\ ParkStreak /\ ParkTrim /\ ParkCorporate
    /\ ParkReconcile /\ ParkIngest /\ ParkExtract
    /\ ParkApp

\* corporate.py:162-164  try: return _fetch_nipa(UNDIST_TABLE, "Q"), "Q"
UndistQuarterly ==
    /\ unit = "load_undist" /\ pc = "start"
    /\ messages' = Append(messages, "Q")
    /\ pc' = undist_after_quarterly(fetches.q)
    /\ result' = IF undist_after_quarterly(fetches.q) = "done"
                 THEN [table |-> fetches.q, tag |-> "Q"] ELSE result
    /\ UNCHANGED <<unit, fetches, raised, series, pct, undistIdle>>

\* corporate.py:165-168  try: return _fetch_nipa(UNDIST_TABLE, "A"), "A"
\*                       except Exception: return pd.DataFrame(), "none"
UndistAnnual ==
    /\ unit = "load_undist" /\ pc = "quarterly_failed"
    /\ messages' = Append(messages, "A")
    /\ result' = IF fetches.a.ok THEN [table |-> fetches.a, tag |-> "A"]
                 ELSE [table |-> EmptyFrame, tag |-> "none"]
    /\ pc' = "done"
    /\ UNCHANGED <<unit, fetches, raised, series, pct, undistIdle>>

NextUndist == UndistQuarterly \/ UndistAnnual

SpecUndist == InitUndist /\ [][NextUndist]_vars

UndistUnit == unit = "load_undist"

\* C29: _load_undist requests the quarterly table first and the annual table only
\* after the quarterly request failed; it returns 'Q' with the quarterly table iff
\* the quarterly request succeeded, 'A' with the annual table iff only the annual
\* one succeeded, 'none' with an empty table iff both failed; it never raises and
\* issues at most these two requests
C29_FallbackChain ==
    UndistUnit =>
        /\ messages \in {<<>>, <<"Q">>, <<"Q", "A">>}
        /\ messages = <<"Q", "A">> => ~fetches.q.ok
        /\ raised = "none"
        /\ pc = "done" =>
              /\ (result.tag = "Q") <=> fetches.q.ok
              /\ (result.tag = "A") <=> (~fetches.q.ok /\ fetches.a.ok)
              /\ (result.tag = "none") <=> (~fetches.q.ok /\ ~fetches.a.ok)
              /\ result.tag = "Q" => (result.table = fetches.q /\ messages = <<"Q">>)
              /\ result.tag = "A" => result.table = fetches.a
              /\ result.tag = "none" => result.table.rows = 0
              /\ result.tag = load_undist(fetches.q, fetches.a).freq
              /\ result.table.rows = load_undist(fetches.q, fetches.a).rows

\* the quarterly request failed, the annual one was issued after it and succeeded
C29_Witness ==
    /\ UndistUnit /\ pc = "done"
    /\ messages = <<"Q", "A">>
    /\ ~fetches.q.ok /\ fetches.a.ok
    /\ result = [table |-> fetches.a, tag |-> "A"]

---------------------------------------------------------------------------
(* Navigation and module dispatch of app.py: lines 100-106, 133-156,       *)
(* 175-212.  A script run is one execution of app.py from top to bottom;   *)
(* st.rerun() stops the run it is called in and starts the next one.       *)

\* app.py:100-106  the keys of MODULES, in their order
ModuleNames == <<"GDP & Components", "Inflation", "Labor Market", "Corporate Health",
                 "Leading Indicators">>

ModuleKeys == {ModuleNames[i] : i \in 1..Len(ModuleNames)}

\* app.py:100-106
MODULES ==
    [name \in ModuleKeys |->
        [module |-> CASE name = "GDP & Components" -> "gdp"
                      [] name = "Inflation" -> "inflation"
                      [] name = "Labor Market" -> "labor"
                      [] name = "Corporate Health" -> "corporate"
                      [] OTHER -> "leading",
         status |-> IF name = "GDP & Components" THEN "live" ELSE "soon"]]

\* app.py:133-134  if "active_module" not in st.session_state: ... = "GDP & Components"
default_module(state) ==
    IF state = <<>> THEN [active_module |-> "GDP & Components"] ELSE state

\* a click that leaves the session state as it is
nav_click_ignored(state, name) == state

\* app.py:155  st.session_state.active_module = name
nav_click(state, name) == [state EXCEPT !.active_module = name]

\* app.py:197-210  the render function the if/elif chain imports
dispatch(module_name) ==
    IF module_name \in {"gdp", "inflation", "labor", "corporate", "leading"}
    THEN module_name ELSE "not_found"

MaxClicks == 3
MaxRuns == 7

ScriptRun(active, renders, stopped) ==
    [active |-> active, renders |-> renders, stopped |-> stopped]

appIdle == <<pctVars, bandVars, streakVars, trimVars, corporateVars, reconcileVars,
             ingestVars, extractVars, viewVars>>

\* the first script run starts when the page is opened
InitApp ==
    /\ unit = "app" /\ pc = "sidebar"
    /\ session_state = <<>>
    /\ click = "none" /\ clicks = <<>> /\ script_runs = <<>>
    /\ ParkPct /\ ParkBand /\ ParkStreak /\ ParkTrim /\ ParkCorporate /\ ParkReconcile
    /\ ParkIngest /\ ParkExtract /\ ParkView

\* app.py:133-156  the sidebar: the default, then the button loop; the button that
\* was clicked sets active_module and calls st.rerun(), which ends this run
AppSidebar ==
    /\ unit = "app" /\ pc = "sidebar"
    /\ IF click \in ModuleKeys
       THEN /\ session_state' = nav_click(default_module(session_state), click)
            /\ script_runs' = Append(script_runs,
                                ScriptRun(session_state'.active_module, <<>>, TRUE))
            /\ click' = "none"
            /\ pc' = "sidebar"
       ELSE /\ session_state' = default_module(session_state)
            /\ pc' = "main"
            /\ UNCHANGED <<click, script_runs>>
    /\ UNCHANGED <<unit, clicks, appIdle>>

\* app.py:175-212  the main area: the header and the render of the active module
AppMain ==
    /\ unit = "app" /\ pc = "main"
    /\ script_runs' = Append(script_runs,
          ScriptRun(session_state.active_module,
                    <<dispatch(MODULES[session_state.active_module].module)>>, FALSE))
    /\ pc' = "idle"
    /\ UNCHANGED <<unit, session_state, click, clicks, appIdle>>

\* the user clicks a navigation button: the script runs again with that button set
AppClick ==
    /\ unit = "app" /\ pc = "idle"
    /\ Len(clicks) < MaxClicks /\ Len(script_runs) + 2 <= MaxRuns
    /\ \E name \in ModuleKeys :
          /\ click' = name
          /\ clicks' = Append(clicks, name)
    /\ pc' = "sidebar"
    /\ UNCHANGED <<unit, session_state, script_runs, appIdle>>

\* the user changes another widget (a range selector): the script runs again
AppInteract ==
    /\ unit = "app" /\ pc = "idle"
    /\ Len(script_runs) + 1 <= MaxRuns
    /\ click' = "none"
    /\ pc' = "sidebar"
    /\ UNCHANGED <<unit, session_state, clicks, script_runs, appIdle>>

NextApp == AppSidebar \/ AppMain \/ AppClick \/ AppInteract

SpecApp == InitApp /\ [][NextApp]_vars

AppUnit == unit = "app"

\* active_module is a key of MODULES and, between script runs, the most recently
\* clicked module name, 'GDP & Components' if none was clicked
ActiveIsLastClick ==
    /\ session_state # <<>> => session_state.active_module \in ModuleKeys
    /\ pc = "idle" =>
          session_state.active_module
              = (IF clicks = <<>> THEN "GDP & Components" ELSE clicks[Len(clicks)])

\* the script run r invoked exactly one render, that of the module of its
\* active_module, one of the five views
OneRender(r) ==
    /\ Len(r.renders) = 1
    /\ r.renders[1] = MODULES[r.active].module
    /\ r.renders[1] \in {"gdp", "inflation", "labor", "corporate", "leading"}

\* C30 (as claimed): after any sequence of navigation clicks active_module is a key
\* of MODULES and the most recently clicked name, and each script run invokes
\* exactly one render function, that of the module mapped to active_module
C30_OneRenderPerRun ==
    AppUnit =>
        /\ ActiveIsLastClick
        /\ \A i \in 1..Len(script_runs) : OneRender(script_runs[i])

\* C30 (amended): active_module is a key of MODULES and the most recently clicked
\* name; a script run that st.rerun() stops in the sidebar invokes no render and
\* is followed at once by another run, every other run invokes exactly one render,
\* that of the module mapped to active_module; the last run before the app waits
\* for the user is never a stopped one
C30_OneRenderPerCompletedRun ==
    AppUnit =>
        /\ ActiveIsLastClick
        /\ \A i \in 1..Len(script_runs) :
              IF script_runs[i].stopped THEN script_runs[i].renders = <<>>
              ELSE OneRender(script_runs[i])
        /\ \A i \in 1..(Len(script_runs) - 1) :
              script_runs[i].stopped =>
                  /\ ~script_runs[i + 1].stopped
                  /\ script_runs[i + 1].active = script_runs[i].active
        /\ pc = "idle" => /\ ~script_runs[Len(script_runs)].stopped
                          /\ script_runs[Len(script_runs)].active
                                 = session_state.active_module

\* two clicks, Inflation then Labor Market: the run that handled the last click
\* was stopped without a render and the run after it rendered the labor view
C30_Witness ==
    /\ AppUnit /\ pc = "idle"
    /\ clicks = <<"Inflation", "Labor Market">>
    /\ Len(script_runs) = 5
    /\ script_runs[4] = ScriptRun("Labor Market", <<>>, TRUE)
    /\ script_runs[5] = ScriptRun("Labor Market", <<"labor">>, FALSE)

=============================================================================
